---- MODULE Spec2Model ----
(***************************************************************************)
(* Model of the Qi Men Dun Jia chart engine                                *)
(*   src/qmdj_agent/qmdj_agent/tools/chart_generator/qimen_generator.py   *)
(* and of its tool entry point qmdj_chart_api in                           *)
(*   src/qmdj_agent/qmdj_agent/tools/qimen.py.                             *)
(*                                                                         *)
(* Characters.  The source works on Chinese characters; string literals of *)
(* this module are ASCII, so every character has one ASCII name:           *)
(*   stems    甲 jia  乙 yi  丙 bing  丁 ding  戊 wu4  己 ji  庚 geng        *)
(*            辛 xin  壬 ren  癸 gui                                        *)
(*   branches 子 zi  丑 chou  寅 yin2  卯 mao  辰 chen  巳 si  午 wu3        *)
(*            未 wei  申 shen  酉 you  戌 xu  亥 hai                        *)
(*   stars    天蓬 tianpeng  天任 tianren  天冲 tianchong  天辅 tianfu       *)
(*            天英 tianying  天芮 tianrui  天柱 tianzhu  天心 tianxin        *)
(*            天禽 tianqin                                                  *)
(*   doors    休门 xiumen  生门 shengmen  伤门 shangmen  杜门 dumen          *)
(*            景门 jing3men  死门 simen  惊门 jing1men  开门 kaimen          *)
(*   deities  值符 zhifu  腾蛇 tengshe  太阴 taiyin  六合 liuhe              *)
(*            白虎 baihu  玄武 xuanwu  九地 jiudi  九天 jiutian              *)
(*   markers  馬 ma   空 kong                                               *)
(*   dun      阳 yang  阴 yin                                               *)
(*   yuan     上元 shangyuan  中元 zhongyuan  下元 xiayuan                   *)
(*   terms    冬至 dongzhi 小寒 xiaohan 大寒 dahan 立春 lichun 雨水 yushui   *)
(*            惊蛰 jingzhe 春分 chunfen 清明 qingming 谷雨 guyu 立夏 lixia   *)
(*            小满 xiaoman 芒种 mangzhong 夏至 xiazhi 小暑 xiaoshu           *)
(*            大暑 dashu 立秋 liqiu 处暑 chushu 白露 bailu 秋分 qiufen       *)
(*            寒露 hanlu 霜降 shuangjiang 立冬 lidong 小雪 xiaoxue           *)
(*            大雪 daxue                                                    *)
(*            and the traditional-script spellings, which are different    *)
(*            strings: 驚蟄 jingzhe_T  穀雨 guyu_T  小滿 xiaoman_T           *)
(*            芒種 mangzhong_T                                              *)
(*                                                                         *)
(* Strings.  A Python str that the code indexes, iterates, concatenates or *)
(* searches (a pillar, empty_death, an earth or heaven stem, xun_shou) is  *)
(* a sequence of characters, "" being << >>.  A name that is only compared *)
(* for equality (star, door, deity, label) is one TLA+ string.             *)
(*                                                                         *)
(* Dicts.  A Python dict is the sequence of its <<key, value>> items in    *)
(* insertion order.                                                        *)
(***************************************************************************)
EXTENDS Integers, Sequences, FiniteSets, TLC

\* ------------------------------------------------------------ Python helpers

\* list.index(x): the 0-based index of the first x, -1 standing for ValueError.
Index(list, x) ==
    IF \E i \in 1..Len(list) : list[i] = x
    THEN (CHOOSE i \in 1..Len(list) :
             list[i] = x /\ \A j \in 1..(i - 1) : list[j] # x) - 1
    ELSE -1

\* list[i] with a 0-based index.
At(list, i) == list[i + 1]

\* Mutant of InStr: s.startswith(c) instead of c in s.
InStr_startswith(c, s) == c = "" \/ (Len(s) >= 1 /\ s[1] = c)

\* c in s, for a character c (or "") and a str s.
InStr(c, s) == c = "" \/ \E i \in 1..Len(s) : s[i] = c

\* ch in s, for one character ch and a str s.
CharIn(ch, s) == \E i \in 1..Len(s) : s[i] = ch

\* k in d
DictHas(d, k) == \E i \in 1..Len(d) : d[i][1] = k

\* d.get(k, dflt)
DictGet(d, k, dflt) ==
    IF DictHas(d, k)
    THEN d[CHOOSE i \in 1..Len(d) : d[i][1] = k][2]
    ELSE dflt

\* d[k] = v
DictSet(d, k, v) ==
    IF DictHas(d, k)
    THEN [i \in 1..Len(d) |-> IF d[i][1] = k THEN <<k, v>> ELSE d[i]]
    ELSE Append(d, <<k, v>>)

\* set(d.keys())
DictKeys(d) == {d[i][1] : i \in 1..Len(d)}

\* for k, v in d.items(): if v == x: found = k; break     (found starts as dflt)
FirstKeyOf(d, x, dflt) ==
    IF \E i \in 1..Len(d) : d[i][2] = x
    THEN d[CHOOSE i \in 1..Len(d) :
              d[i][2] = x /\ \A j \in 1..(i - 1) : d[j][2] # x][1]
    ELSE dflt

\* ------------------------------------------------------------ class constants

TIAN_GAN == <<"jia", "yi", "bing", "ding", "wu4", "ji", "geng", "xin", "ren", "gui">>

DI_ZHI == <<"zi", "chou", "yin2", "mao", "chen", "si",
            "wu3", "wei", "shen", "you", "xu", "hai">>

\* PALACE_NAMES[0] is "", so the list is indexed with At.
PALACE_NAMES == <<"", "kan", "kun", "zhen", "xun", "zhong", "qian", "dui", "gen", "li">>

DEITIES == <<"zhifu", "tengshe", "taiyin", "liuhe", "baihu", "xuanwu", "jiudi", "jiutian">>

ROTATION_PATH == <<1, 8, 3, 4, 9, 2, 7, 6>>

\* Mutant of BRANCH_TO_PALACE: yin2 is given palace 3, the palace of the next
\* branch.
BRANCH_TO_PALACE_slipped ==
    << <<"zi", 1>>, <<"chou", 8>>, <<"yin2", 3>>, <<"mao", 3>>, <<"chen", 4>>, <<"si", 4>>,
       <<"wu3", 9>>, <<"wei", 2>>, <<"shen", 2>>, <<"you", 7>>, <<"xu", 6>>, <<"hai", 6>> >>

BRANCH_TO_PALACE ==
    << <<"zi", 1>>, <<"chou", 8>>, <<"yin2", 8>>, <<"mao", 3>>, <<"chen", 4>>, <<"si", 4>>,
       <<"wu3", 9>>, <<"wei", 2>>, <<"shen", 2>>, <<"you", 7>>, <<"xu", 6>>, <<"hai", 6>> >>

\* ------------------------------------------------------------ local tables

EMPTY_MAP ==
    << <<"zi", <<"xu", "hai">> >>, <<"xu", <<"shen", "you">> >>, <<"shen", <<"wu3", "wei">> >>,
       <<"wu3", <<"chen", "si">> >>, <<"chen", <<"yin2", "mao">> >>, <<"yin2", <<"zi", "chou">> >> >>

YANG_DUN_JQ ==
    <<"dongzhi", "xiaohan", "dahan", "lichun", "yushui", "jingzhe_T",
      "chunfen", "qingming", "guyu_T", "lixia", "xiaoman_T", "mangzhong_T">>

JU_MAP ==
    << <<"dongzhi", <<1, 7, 4>> >>, <<"xiaohan", <<2, 8, 5>> >>, <<"dahan", <<3, 9, 6>> >>,
       <<"lichun", <<8, 5, 2>> >>, <<"yushui", <<9, 6, 3>> >>, <<"jingzhe", <<1, 7, 4>> >>,
       <<"chunfen", <<3, 9, 6>> >>, <<"qingming", <<4, 1, 7>> >>, <<"guyu", <<5, 2, 8>> >>,
       <<"lixia", <<4, 1, 7>> >>, <<"xiaoman", <<5, 2, 8>> >>, <<"mangzhong", <<6, 3, 9>> >>,
       <<"xiazhi", <<9, 3, 6>> >>, <<"xiaoshu", <<8, 2, 5>> >>, <<"dashu", <<7, 1, 4>> >>,
       <<"liqiu", <<2, 5, 8>> >>, <<"chushu", <<1, 4, 7>> >>, <<"bailu", <<9, 3, 6>> >>,
       <<"qiufen", <<7, 1, 4>> >>, <<"hanlu", <<6, 9, 3>> >>, <<"shuangjiang", <<5, 8, 2>> >>,
       <<"lidong", <<6, 9, 3>> >>, <<"xiaoxue", <<5, 8, 2>> >>, <<"daxue", <<4, 7, 1>> >> >>

\* Mutant of pai_gan: the laying sequence has ten stems, jia after yi.
pai_gan_jia_last ==
    <<"wu4", "ji", "geng", "xin", "ren", "gui", "ding", "bing", "yi", "jia">>

pai_gan == <<"wu4", "ji", "geng", "xin", "ren", "gui", "ding", "bing", "yi">>

\* Mutant of XUN_MAP: the lead stems of the Xun of jia-shen and jia-wu3 are
\* exchanged.
XUN_MAP_exchanged ==
    << <<"zi", "wu4">>, <<"xu", "ji">>, <<"shen", "xin">>,
       <<"wu3", "geng">>, <<"chen", "ren">>, <<"yin2", "gui">> >>

XUN_MAP ==
    << <<"zi", "wu4">>, <<"xu", "ji">>, <<"shen", "geng">>,
       <<"wu3", "xin">>, <<"chen", "ren">>, <<"yin2", "gui">> >>

STAR_MAP ==
    << <<1, "tianpeng">>, <<2, "tianrui">>, <<3, "tianchong">>, <<4, "tianfu">>,
       <<5, "tianqin">>, <<6, "tianxin">>, <<7, "tianzhu">>, <<8, "tianren">>,
       <<9, "tianying">> >>

DOOR_MAP ==
    << <<1, "xiumen">>, <<2, "simen">>, <<3, "shangmen">>, <<4, "dumen">>, <<5, "">>,
       <<6, "kaimen">>, <<7, "jing1men">>, <<8, "shengmen">>, <<9, "jing3men">> >>

\* Mutant of STD_STAR_RING: the stars are listed by palace number instead of
\* along the spatial path.
STD_STAR_RING_by_number ==
    <<"tianpeng", "tianrui", "tianchong", "tianfu", "tianxin", "tianzhu", "tianren", "tianying">>

STD_STAR_RING ==
    <<"tianpeng", "tianren", "tianchong", "tianfu", "tianying", "tianrui", "tianzhu", "tianxin">>

\* Mutant of STD_DOOR_RING: the Death door is written in another script than
\* in DOOR_MAP, as the solar terms of YANG_DUN_JQ are.
STD_DOOR_RING_other_script ==
    <<"xiumen", "shengmen", "shangmen", "dumen", "jing3men", "simen_T", "jing1men", "kaimen">>

STD_DOOR_RING ==
    <<"xiumen", "shengmen", "shangmen", "dumen", "jing3men", "simen", "jing1men", "kaimen">>

\* The palaces other than the center.
NonCenterPalaces == {1, 2, 3, 4, 6, 7, 8, 9}

\* a 1-character str (or "") as a str: the sequence of its characters
Str(c) == IF c = "" THEN << >> ELSE <<c>>

\* ------------------------------------------------------------ the generator

\* The attributes QimenGenerator.__init__ sets.  The attributes generate()
\* adds later (yuan_idx, futou, ju_num, earth_plate, xun_shou, zhi_fu_star,
\* zhi_shi_door and the four plates) do not exist yet in the code; here they
\* hold a blank of their type, and generate() assigns each before reading it.
\* exc is not an attribute: it names the exception that ended the last
\* generate(), "" when it returned.
NewSelf ==
    [gan_zhi |-> << >>, jie_qi |-> "", yuan |-> "", yin_yang |-> "",
     horse_star |-> "", empty_death |-> << >>,
     yuan_idx |-> 0, futou |-> << >>, ju_num |-> 0,
     earth_plate |-> << >>, xun_shou |-> << >>,
     zhi_fu_star |-> "", zhi_shi_door |-> "",
     heaven_plate |-> << >>, heaven_stem_plate |-> << >>,
     man_plate |-> << >>, deity_plate |-> << >>,
     locals |-> [lead_loc |-> 0, target_loc |-> 0, diff_hours |-> 0,
                 dest_door_loc |-> 0],
     exc |-> ""]

\* Mutant of HorseOf: the results of the second and third triads are swapped.
HorseOf_swapped(h_zhi, old) ==
    IF h_zhi \in {"shen", "zi", "chen"} THEN "yin2"
    ELSE IF h_zhi \in {"yin2", "wu3", "xu"} THEN "hai"
    ELSE IF h_zhi \in {"si", "you", "chou"} THEN "shen"
    ELSE IF h_zhi \in {"hai", "mao", "wei"} THEN "si"
    ELSE old

\* _calc_horse_star: the if/elif chain on the hour branch; no branch taken
\* leaves the attribute as it was.
HorseOf(h_zhi, old) ==
    IF CharIn(h_zhi, <<"shen", "zi", "chen">>) THEN "yin2"
    ELSE IF CharIn(h_zhi, <<"yin2", "wu3", "xu">>) THEN "shen"
    ELSE IF CharIn(h_zhi, <<"si", "you", "chou">>) THEN "hai"
    ELSE IF CharIn(h_zhi, <<"hai", "mao", "wei">>) THEN "si"
    ELSE old

calc_horse_star(self) ==
    LET h_zhi == At(At(self.gan_zhi, 3), 1)
    IN  [self EXCEPT !.horse_star = HorseOf(h_zhi, self.horse_star)]

\* _calc_empty_death: EMPTY_MAP.get(xun_zhi, "")
EmptyOf(xun_zhi) == DictGet(EMPTY_MAP, xun_zhi, << >>)

\* Mutant of calc_empty_death: += instead of =, so the attribute keeps what
\* an earlier call left in it.
calc_empty_death_appending(self) ==
    LET h_gan == At(At(self.gan_zhi, 3), 0)
        h_zhi == At(At(self.gan_zhi, 3), 1)
        xun_zhi == At(DI_ZHI, (Index(DI_ZHI, h_zhi) - Index(TIAN_GAN, h_gan)) % 12)
    IN  [self EXCEPT !.empty_death = self.empty_death \o EmptyOf(xun_zhi)]

\* Mutant of calc_empty_death: the subtraction is turned around (Gan - Zhi).
calc_empty_death_reversed(self) ==
    LET h_gan == At(At(self.gan_zhi, 3), 0)
        h_zhi == At(At(self.gan_zhi, 3), 1)
        xun_zhi == At(DI_ZHI, (Index(TIAN_GAN, h_gan) - Index(DI_ZHI, h_zhi)) % 12)
    IN  [self EXCEPT !.empty_death = EmptyOf(xun_zhi)]

calc_empty_death(self) ==
    LET h_gan == At(At(self.gan_zhi, 3), 0)
        h_zhi == At(At(self.gan_zhi, 3), 1)
        gan_idx == Index(TIAN_GAN, h_gan)
        zhi_idx == Index(DI_ZHI, h_zhi)
    IN  IF gan_idx = -1 \/ zhi_idx = -1
        THEN [self EXCEPT !.exc = "ValueError"]
        ELSE LET xun_zhi_idx == (zhi_idx - gan_idx) % 12
                 xun_zhi == At(DI_ZHI, xun_zhi_idx)
             IN  [self EXCEPT !.empty_death = EmptyOf(xun_zhi)]

\* Mutant of FuTou: the offset is added to the day branch index instead of
\* subtracted from it.
FuTou_added(d_gz) ==
    LET day_gan_idx == Index(TIAN_GAN, At(d_gz, 0))
        day_zhi_idx == Index(DI_ZHI, At(d_gz, 1))
        diff == IF day_gan_idx < 5 THEN day_gan_idx ELSE day_gan_idx - 5
        futou_gan == IF day_gan_idx < 5 THEN "jia" ELSE "ji"
        futou_zhi_idx == (day_zhi_idx + diff) % 12
    IN  <<futou_gan, At(DI_ZHI, futou_zhi_idx)>>

\* _calc_base_info, lines 148-173: Fu Tou and Yuan from the day pillar.
FuTou(d_gz) ==
    LET day_gan_idx == Index(TIAN_GAN, At(d_gz, 0))
        day_zhi_idx == Index(DI_ZHI, At(d_gz, 1))
        diff == IF day_gan_idx < 5 THEN day_gan_idx ELSE day_gan_idx - 5
        futou_gan == IF day_gan_idx < 5 THEN "jia" ELSE "ji"
        futou_zhi_idx == (day_zhi_idx - diff) % 12
    IN  <<futou_gan, At(DI_ZHI, futou_zhi_idx)>>

\* Mutant of YuanOf: the branch sets of the Middle and the Lower Yuan are
\* exchanged.
YuanOf_exchanged(futou_zhi) ==
    IF CharIn(futou_zhi, <<"zi", "wu3", "mao", "you">>) THEN <<"shangyuan", 1>>
    ELSE IF CharIn(futou_zhi, <<"chen", "xu", "chou", "wei">>) THEN <<"zhongyuan", 2>>
    ELSE <<"xiayuan", 3>>

YuanOf(futou_zhi) ==
    IF CharIn(futou_zhi, <<"zi", "wu3", "mao", "you">>) THEN <<"shangyuan", 1>>
    ELSE IF CharIn(futou_zhi, <<"yin2", "shen", "si", "hai">>) THEN <<"zhongyuan", 2>>
    ELSE <<"xiayuan", 3>>

\* lunar is what the calendar adapter answers for the instance's date:
\* lunar.gz the four pillars (year, month, day, hour), lunar.jie_qi the name
\* of the previous solar term; lunar.fault, that its calls raise instead.
calc_base_info(self, lunar) ==
    IF lunar.fault THEN [self EXCEPT !.exc = "AdapterError"] ELSE
    LET d_gz == At(lunar.gz, 2)
        futou == FuTou(d_gz)
        y == YuanOf(At(futou, 1))
    IN  [self EXCEPT !.gan_zhi = lunar.gz,
                     !.jie_qi = lunar.jie_qi,
                     !.futou = futou,
                     !.yuan = y[1],
                     !.yuan_idx = y[2]]

\* _calc_ju, lines 177-184
DunOf(jie_qi) == IF CharIn(jie_qi, YANG_DUN_JQ) THEN "yang" ELSE "yin"

\* Mutant of JuOf: a term that is not in the table gives Ju 0.
JuOf_fallback_zero(jie_qi, yuan_idx) ==
    IF DictHas(JU_MAP, jie_qi)
    THEN At(DictGet(JU_MAP, jie_qi, << >>), yuan_idx - 1)
    ELSE 0

\* _calc_ju, lines 186-201
JuOf(jie_qi, yuan_idx) ==
    IF DictHas(JU_MAP, jie_qi)
    THEN At(DictGet(JU_MAP, jie_qi, << >>), yuan_idx - 1)
    ELSE 1

calc_ju(self) ==
    [self EXCEPT !.yin_yang = DunOf(self.jie_qi),
                 !.ju_num = JuOf(self.jie_qi, self.yuan_idx)]

\* ---- _generate_plates

\* Mutant of NextPos: the walk wraps one palace early (>= 9, <= 1).
NextPos_early_wrap(curr_pos, yin_yang) ==
    IF yin_yang = "yang"
    THEN (IF curr_pos + 1 >= 9 THEN 1 ELSE curr_pos + 1)
    ELSE (IF curr_pos - 1 <= 1 THEN 9 ELSE curr_pos - 1)

\* lines 213-218: the next palace of the Earth Plate walk
NextPos(curr_pos, yin_yang) ==
    IF yin_yang = "yang"
    THEN (IF curr_pos + 1 > 9 THEN 1 ELSE curr_pos + 1)
    ELSE (IF curr_pos - 1 < 1 THEN 9 ELSE curr_pos - 1)

\* lines 211-218: the loop over pai_gan, from its k-th stem on
RECURSIVE EarthWalk(_, _, _, _)
EarthWalk(k, curr_pos, earth_plate, yin_yang) ==
    IF k > Len(pai_gan)
    THEN earth_plate
    ELSE EarthWalk(k + 1, NextPos(curr_pos, yin_yang),
                   DictSet(earth_plate, curr_pos, pai_gan[k]), yin_yang)

\* Mutant of EarthPlate: the walk starts at palace 1 whatever the Ju number.
EarthPlate_from_one(ju_num, yin_yang) == EarthWalk(1, 1, << >>, yin_yang)

\* lines 206-220
EarthPlate(ju_num, yin_yang) == EarthWalk(1, ju_num, << >>, yin_yang)

\* lines 269-272
StarStart(zf_name) ==
    IF Index(STD_STAR_RING, zf_name) # -1 THEN Index(STD_STAR_RING, zf_name) ELSE 5

\* Mutant of StarAnchor: no stand-in for the center, the anchor falls back to
\* the start of the path.
StarAnchor_no_alias(target_loc) ==
    IF Index(ROTATION_PATH, target_loc) # -1 THEN Index(ROTATION_PATH, target_loc) ELSE 0

\* lines 274-278
StarAnchor(target_loc) ==
    IF Index(ROTATION_PATH, target_loc) # -1
    THEN Index(ROTATION_PATH, target_loc)
    ELSE IF target_loc = 5 THEN Index(ROTATION_PATH, 2) ELSE 0

\* Mutant of OrigHome: the position of the star in the ring is taken for its
\* home palace.
OrigHome_numeric(star) == Index(STD_STAR_RING, star) + 1

\* lines 288-293
OrigHome(star) == IF star = "tianrui" THEN 2 ELSE FirstKeyOf(STAR_MAP, star, 0)

\* lines 283-300: the star loop from step i on; acc holds heaven_plate and
\* heaven_stem_plate
RECURSIVE StarLoop(_, _, _, _, _)
StarLoop(i, start_idx, target_rot_idx, earth_plate, acc) ==
    IF i >= 8
    THEN acc
    ELSE LET star == At(STD_STAR_RING, (start_idx + i) % 8)
             pal_num == At(ROTATION_PATH, (target_rot_idx + i) % 8)
             stem_val == DictGet(earth_plate, OrigHome(star), "")
             center_stem == DictGet(earth_plate, 5, "")
             h_stem == IF star = "tianrui"
                       THEN Str(stem_val) \o Str(center_stem)
                       ELSE Str(stem_val)
         IN  StarLoop(i + 1, start_idx, target_rot_idx, earth_plate,
                      [heaven_plate |-> DictSet(acc.heaven_plate, pal_num, star),
                       heaven_stem_plate |->
                           DictSet(acc.heaven_stem_plate, pal_num, h_stem)])

\* lines 317-318
RECURSIVE WhileAbove9(_)
WhileAbove9(x) == IF x > 9 THEN WhileAbove9(x - 9) ELSE x

\* lines 322-323
RECURSIVE WhileBelow1(_)
WhileBelow1(x) == IF x < 1 THEN WhileBelow1(x + 9) ELSE x

\* Mutant of DestDoorLoc: the wraparound is an if, taken once, instead of a
\* while.
DestDoorLoc_single_wrap(lead_loc, diff_hours, yin_yang) ==
    IF yin_yang = "yang"
    THEN (IF lead_loc + diff_hours > 9 THEN lead_loc + diff_hours - 9
          ELSE lead_loc + diff_hours)
    ELSE (IF lead_loc - diff_hours < 1 THEN lead_loc - diff_hours + 9
          ELSE lead_loc - diff_hours)

\* lines 315-323
DestDoorLoc(lead_loc, diff_hours, yin_yang) ==
    IF yin_yang = "yang"
    THEN LET x == WhileAbove9(lead_loc + diff_hours)
         IN  IF x = 0 THEN 9 ELSE x
    ELSE WhileBelow1(lead_loc - diff_hours)

\* Mutant of DoorAnchor: no stand-in for the center, the anchor falls back to
\* the start of the path.
DoorAnchor_no_alias(dest_door_loc) ==
    IF Index(ROTATION_PATH, dest_door_loc) # -1
    THEN Index(ROTATION_PATH, dest_door_loc)
    ELSE 0

\* lines 330-334
DoorAnchor(dest_door_loc) ==
    IF Index(ROTATION_PATH, dest_door_loc) # -1
    THEN Index(ROTATION_PATH, dest_door_loc)
    ELSE Index(ROTATION_PATH, 2)

\* lines 339-342
DoorStart(zs_name) ==
    IF Index(STD_DOOR_RING, zs_name) # -1 THEN Index(STD_DOOR_RING, zs_name) ELSE 0

\* lines 344-348: the door loop from step i on
RECURSIVE DoorLoop(_, _, _, _)
DoorLoop(i, start_door_idx, final_door_rot_idx, man_plate) ==
    IF i >= 8
    THEN man_plate
    ELSE LET door == At(STD_DOOR_RING, (start_door_idx + i) % 8)
             pal_num == At(ROTATION_PATH, (final_door_rot_idx + i) % 8)
         IN  DoorLoop(i + 1, start_door_idx, final_door_rot_idx,
                      DictSet(man_plate, pal_num, door))

\* lines 355-358
DeityAnchor(target_loc) ==
    IF Index(ROTATION_PATH, target_loc) # -1 THEN Index(ROTATION_PATH, target_loc) ELSE 0

\* Mutant of DeityPalace: the path index is clamped at the end of the path
\* instead of wrapping around it.
DeityPalace_clamped(deity_rot_idx, i, yin_yang) ==
    IF yin_yang = "yang"
    THEN At(ROTATION_PATH, IF deity_rot_idx + i > 7 THEN 7 ELSE deity_rot_idx + i)
    ELSE At(ROTATION_PATH, IF deity_rot_idx - i < 0 THEN 0 ELSE deity_rot_idx - i)

\* Mutant of DeityPalace: the deities step forward in both polarities.
DeityPalace_forward_only(deity_rot_idx, i, yin_yang) ==
    At(ROTATION_PATH, (deity_rot_idx + i) % 8)

\* lines 363-366
DeityPalace(deity_rot_idx, i, yin_yang) ==
    IF yin_yang = "yang"
    THEN At(ROTATION_PATH, (deity_rot_idx + i) % 8)
    ELSE At(ROTATION_PATH, (deity_rot_idx - i) % 8)

\* lines 360-367: the deity loop from step i on
RECURSIVE DeityLoop(_, _, _, _)
DeityLoop(i, deity_rot_idx, yin_yang, deity_plate) ==
    IF i >= 8
    THEN deity_plate
    ELSE DeityLoop(i + 1, deity_rot_idx, yin_yang,
                   DictSet(deity_plate, DeityPalace(deity_rot_idx, i, yin_yang),
                           At(DEITIES, i)))

\* _generate_plates.  A failed lookup (list.index of a missing item outside a
\* try, dict[key] of a missing key) ends the method with exc set, leaving the
\* attributes assigned so far.  locals keeps the method's local variables that
\* are not stored on the instance.
generate_plates(self) ==
    LET earth_plate == EarthPlate(self.ju_num, self.yin_yang)
        s1 == [self EXCEPT !.earth_plate = earth_plate]
        h_gan == At(At(self.gan_zhi, 3), 0)
        h_zhi == At(At(self.gan_zhi, 3), 1)
        h_gan_idx == Index(TIAN_GAN, h_gan)
        h_zhi_idx == Index(DI_ZHI, h_zhi)
    IN
    IF h_gan_idx = -1 \/ h_zhi_idx = -1 THEN [s1 EXCEPT !.exc = "ValueError"] ELSE
    LET diff == (h_zhi_idx - h_gan_idx) % 12
        xun_shou_zhi == At(DI_ZHI, diff)
    IN
    IF ~DictHas(XUN_MAP, xun_shou_zhi) THEN [s1 EXCEPT !.exc = "KeyError"] ELSE
    LET lead_stem == DictGet(XUN_MAP, xun_shou_zhi, "")
        s2 == [s1 EXCEPT !.xun_shou = <<"jia", xun_shou_zhi, lead_stem>>]
        lead_loc == FirstKeyOf(earth_plate, lead_stem, 0)
    IN
    IF ~DictHas(STAR_MAP, lead_loc) THEN [s2 EXCEPT !.exc = "KeyError"] ELSE
    LET zhi_fu_star == IF lead_loc = 5 THEN "tianqin" ELSE DictGet(STAR_MAP, lead_loc, "")
        zhi_shi_door == IF lead_loc = 5 THEN "simen" ELSE DictGet(DOOR_MAP, lead_loc, "")
        \* 3. Heaven Plate
        target_stem == IF h_gan = "jia" THEN lead_stem ELSE h_gan
        target_loc == FirstKeyOf(earth_plate, target_stem, 0)
        zf_name == IF zhi_fu_star = "tianqin" THEN "tianrui" ELSE zhi_fu_star
        start_idx == StarStart(zf_name)
        target_rot_idx == StarAnchor(target_loc)
        stars == StarLoop(0, start_idx, target_rot_idx, earth_plate,
                          [heaven_plate |-> << >>, heaven_stem_plate |-> << >>])
        heaven_plate == DictSet(stars.heaven_plate, 5, "")
        \* 4. Man Plate
        xs_zhi_idx == Index(DI_ZHI, xun_shou_zhi)
        curr_h_idx == Index(DI_ZHI, h_zhi)
        diff_hours == (curr_h_idx - xs_zhi_idx) % 12
        dest_door_loc == DestDoorLoc(lead_loc, diff_hours, self.yin_yang)
        final_door_rot_idx == DoorAnchor(dest_door_loc)
        start_door_idx == DoorStart(zhi_shi_door)
        man_plate == DictSet(DoorLoop(0, start_door_idx, final_door_rot_idx, << >>), 5, "")
        \* 5. Deity Plate
        deity_rot_idx == DeityAnchor(target_loc)
        deity_plate == DictSet(DeityLoop(0, deity_rot_idx, self.yin_yang, << >>), 5, "")
    IN  [s2 EXCEPT !.zhi_fu_star = zhi_fu_star,
                   !.zhi_shi_door = zhi_shi_door,
                   !.heaven_plate = heaven_plate,
                   !.heaven_stem_plate = stars.heaven_stem_plate,
                   !.man_plate = man_plate,
                   !.deity_plate = deity_plate,
                   !.locals = [lead_loc |-> lead_loc, target_loc |-> target_loc,
                               diff_hours |-> diff_hours,
                               dest_door_loc |-> dest_door_loc]]

\* ---- _format_output

\* BRANCH_TO_PALACE.get(b): None is 0, which equals no palace number
PalaceOfBranch(b) == DictGet(BRANCH_TO_PALACE, b, 0)

\* line 389: [BRANCH_TO_PALACE.get(b) for b in list(empty_death)]
EmptyPalaces(empty_death) ==
    [k \in 1..Len(empty_death) |-> PalaceOfBranch(empty_death[k])]

\* lines 391-399: the search for the palace the center lodges in, from i on
RECURSIVE LodgedFrom(_, _, _)
LodgedFrom(i, center_stem, heaven_stem_plate) ==
    IF i >= 10 THEN 0
    ELSE IF i = 5 THEN LodgedFrom(i + 1, center_stem, heaven_stem_plate)
    ELSE IF InStr(center_stem, DictGet(heaven_stem_plate, i, << >>)) THEN i
    ELSE LodgedFrom(i + 1, center_stem, heaven_stem_plate)

\* Mutant of LodgedPalace: the heaven stem must equal the center's earth stem
\* (==) instead of containing it (in).
LodgedPalace_equal(earth_plate, heaven_stem_plate) ==
    LET center_stem == Str(DictGet(earth_plate, 5, ""))
        hits == {i \in NonCenterPalaces : DictGet(heaven_stem_plate, i, << >>) = center_stem}
    IN  IF hits = {} THEN 0 ELSE CHOOSE i \in hits : \A j \in hits : i <= j

LodgedPalace(earth_plate, heaven_stem_plate) ==
    LodgedFrom(1, DictGet(earth_plate, 5, ""), heaven_stem_plate)

\* Mutant of Markers: the Empty/Death marker is appended once for each empty
\* branch whose palace is i.
Markers_per_branch(i, horse_palace, empty_palaces) ==
    (IF i = horse_palace THEN <<"ma">> ELSE << >>)
    \o [k \in 1..Cardinality({j \in 1..Len(empty_palaces) : empty_palaces[j] = i})
           |-> "kong"]

\* lines 402-406 and 424-426: the markers of palace i
Markers(i, horse_palace, empty_palaces) ==
    (IF i = horse_palace THEN <<"ma">> ELSE << >>)
    \o (IF CharIn(i, empty_palaces) THEN <<"kong">> ELSE << >>)

\* Mutant of PalaceRecord: palace 5 copies from palaces_data as built so far
\* (lodged_data, line 410), which has no entry yet for a palace above 5.
PalaceRecord_from_built(self, i, lodged_palace, horse_palace, empty_palaces) ==
    LET built == lodged_palace < i
        p_h_stem == IF built THEN DictGet(self.heaven_stem_plate, lodged_palace, << >>)
                    ELSE << >>
        p_star == IF built THEN DictGet(self.heaven_plate, lodged_palace, "") ELSE ""
        p_door == IF built THEN DictGet(self.man_plate, lodged_palace, "") ELSE ""
        p_deity == IF built THEN DictGet(self.deity_plate, lodged_palace, "") ELSE ""
        p_markers == IF built THEN Markers(lodged_palace, horse_palace, empty_palaces)
                     ELSE << >>
        own == IF i = 5 /\ lodged_palace # 0 THEN 0 ELSE i
    IN  [palace_name |-> At(PALACE_NAMES, i),
         earth_stem |-> DictGet(self.earth_plate, i, ""),
         heaven_stem |-> IF own = 0 THEN p_h_stem
                         ELSE DictGet(self.heaven_stem_plate, i, << >>),
         star |-> IF own = 0 THEN p_star ELSE DictGet(self.heaven_plate, i, ""),
         door |-> IF own = 0 THEN p_door ELSE DictGet(self.man_plate, i, ""),
         deity |-> IF own = 0 THEN p_deity ELSE DictGet(self.deity_plate, i, ""),
         markers |-> IF own = 0 THEN p_markers
                     ELSE Markers(i, horse_palace, empty_palaces),
         all_symbols |-> << >>]

\* lines 408-460: the record of palace i
PalaceRecord(self, i, lodged_palace, horse_palace, empty_palaces) ==
    IF i = 5 /\ lodged_palace # 0
    THEN LET p_h_stem == DictGet(self.heaven_stem_plate, lodged_palace, << >>)
             p_star == DictGet(self.heaven_plate, lodged_palace, "")
             p_door == DictGet(self.man_plate, lodged_palace, "")
             p_deity == DictGet(self.deity_plate, lodged_palace, "")
             p_markers == Markers(lodged_palace, horse_palace, empty_palaces)
         IN  [palace_name |-> At(PALACE_NAMES, i),
              earth_stem |-> DictGet(self.earth_plate, i, ""),
              heaven_stem |-> p_h_stem,
              star |-> p_star,
              door |-> p_door,
              deity |-> p_deity,
              markers |-> p_markers,
              all_symbols |-> <<p_h_stem, p_door, p_deity, p_star,
                                DictGet(self.earth_plate, i, "")>>]
    ELSE [palace_name |-> At(PALACE_NAMES, i),
          earth_stem |-> DictGet(self.earth_plate, i, ""),
          heaven_stem |-> DictGet(self.heaven_stem_plate, i, << >>),
          star |-> DictGet(self.heaven_plate, i, ""),
          door |-> DictGet(self.man_plate, i, ""),
          deity |-> DictGet(self.deity_plate, i, ""),
          markers |-> Markers(i, horse_palace, empty_palaces),
          all_symbols |-> <<DictGet(self.heaven_stem_plate, i, << >>),
                            DictGet(self.man_plate, i, ""),
                            DictGet(self.deity_plate, i, ""),
                            DictGet(self.heaven_plate, i, ""),
                            DictGet(self.earth_plate, i, "")>>]

\* Mutant of PalaceLoop: range(1, 9) instead of range(1, 10).
RECURSIVE PalaceLoop_short(_, _, _, _, _, _)
PalaceLoop_short(i, self, lodged_palace, horse_palace, empty_palaces, palaces_data) ==
    IF i >= 9
    THEN palaces_data
    ELSE PalaceLoop_short(i + 1, self, lodged_palace, horse_palace, empty_palaces,
                          DictSet(palaces_data, i,
                                  PalaceRecord(self, i, lodged_palace, horse_palace,
                                               empty_palaces)))

\* lines 401-460: the loop for i in range(1, 10), from i on
RECURSIVE PalaceLoop(_, _, _, _, _, _)
PalaceLoop(i, self, lodged_palace, horse_palace, empty_palaces, palaces_data) ==
    IF i >= 10
    THEN palaces_data
    ELSE PalaceLoop(i + 1, self, lodged_palace, horse_palace, empty_palaces,
                    DictSet(palaces_data, i,
                            PalaceRecord(self, i, lodged_palace, horse_palace,
                                         empty_palaces)))

\* _format_output.  solar_date, the formatted civil time the instance was
\* built for, is not part of the model, which starts from the adapter's
\* answer for that time.
format_output(self) ==
    LET horse_palace == PalaceOfBranch(self.horse_star)
        empty_palaces == EmptyPalaces(self.empty_death)
        lodged_palace == LodgedPalace(self.earth_plate, self.heaven_stem_plate)
    IN  [timezone |-> "GMT+8",
         gan_zhi |-> [year |-> At(self.gan_zhi, 0), month |-> At(self.gan_zhi, 1),
                      day |-> At(self.gan_zhi, 2), hour |-> At(self.gan_zhi, 3)],
         solar_term |-> self.jie_qi,
         yuan |-> self.yuan,
         yin_yang |-> self.yin_yang,
         ju_num |-> self.ju_num,
         formation |-> <<self.yin_yang, "dun", self.ju_num, "ju">>,
         xun_shou |-> self.xun_shou,
         zhi_fu |-> self.zhi_fu_star,
         zhi_shi |-> self.zhi_shi_door,
         horse_star |-> self.horse_star,
         empty_death |-> self.empty_death,
         palaces |-> PalaceLoop(1, self, lodged_palace, horse_palace,
                                empty_palaces, << >>)]

\* ---- generate

\* What a call returns when it raises instead.
None == [raised |-> TRUE]

\* A step of generate() is run unless an earlier step raised.
step_horse_star(s) == IF s.exc # "" THEN s ELSE calc_horse_star(s)
step_empty_death(s) == IF s.exc # "" THEN s ELSE calc_empty_death(s)
step_ju(s) == IF s.exc # "" THEN s ELSE calc_ju(s)
step_plates(s) == IF s.exc # "" THEN s ELSE generate_plates(s)

\* line 87: the instance after the call and the dict returned, None when the
\* call raised
step_output(s) == [self |-> s, ret |-> IF s.exc # "" THEN None ELSE format_output(s)]

\* generate(): the five steps in order, each on the instance the one before
\* left; an exception ends the call there.
generate(self, lunar) ==
    step_output(step_plates(step_ju(step_empty_death(step_horse_star(
        calc_base_info([self EXCEPT !.exc = ""], lunar))))))

\* ------------------------------------------------------------ the state machine

\* How many times generate() is called on one instance.
MaxCalls == 2

\* How many day pillars the adapter answers with: every sixth day of the
\* cycle from jia-zi on, so that the k-th is day (k mod 5) of the k-th
\* five-day block; three of them are one day of each Yuan.
MaxDays == 3

\* The k-th stem-branch pair of the sexagenary cycle, from 0.
Pillar(k) == <<At(TIAN_GAN, k % 10), At(DI_ZHI, k % 12)>>

\* The 60 pairs of the cycle: the hour pillars.
Pillars == {Pillar(k) : k \in 0..59}

\* The day pillars.
DayPillars == {Pillar((6 * k) % 60) : k \in 0..(MaxDays - 1)}

\* The solar-term names the adapter may answer: the 24 names of the Ju table
\* and one name that is not in it.
Terms == DictKeys(JU_MAP) \cup {"unlisted"}

\* The year and month pillars are only passed through to the output.
YearPillar == <<"yi", "si">>
MonthPillar == <<"wu4", "zi">>

\* The adapter's answers for a date it accepts.
LunarOf(d_gz, h_gz, jq) ==
    [gz |-> <<YearPillar, MonthPillar, d_gz, h_gz>>, jie_qi |-> jq, fault |-> FALSE]

\* An adapter whose calls raise.
LunarFault == [gz |-> << >>, jie_qi |-> "", fault |-> TRUE]

NoLunar == [gz |-> << >>, jie_qi |-> "", fault |-> FALSE]

\* No todos channel, no record of progress, no model.
NoTodos == [agent |-> "", is_none |-> TRUE, items |-> << >>, updates |-> 0, raised |-> FALSE]
NoProgress == << >>
NoModel == [api_keys |-> 0, current_key_index |-> 0, pc |-> "none"]

VARIABLES
    pc,        \* "new": nothing built; "ready": an instance exists;
               \* "raised": an exception reached the caller;
               \* "returned": qmdj_chart_api returned
    lunar,     \* the adapter objects of the instance (self.solar, self.lunar)
    self,      \* the instance's attributes
    calls,     \* generate() calls made on the instance
    chart,     \* what the last generate() returned
    first,     \* what the first generate() returned
    response,  \* what qmdj_chart_api or an energy tool returned
    todos,     \* the todos channel of an agent's state, reduced by merge_todos
    progress,  \* the highest status each todo has had in the channel
    rotating   \* a RotatingGeminiModel and the request it is serving

vars == <<pc, lunar, self, calls, chart, first, response, todos, progress, rotating>>

\* The state outside the chart engine and the energy layer.
agentVars == <<todos, progress, rotating>>

\* No agent state and no model exist.
AgentsIdle ==
    /\ todos = NoTodos
    /\ progress = NoProgress
    /\ rotating = NoModel

NoResponse == [kind |-> "none", error |-> << >>, chart |-> None]

Init ==
    /\ pc = "new"
    /\ lunar = NoLunar
    /\ self = NewSelf
    /\ calls = 0
    /\ chart = None
    /\ first = None
    /\ response = NoResponse
    /\ AgentsIdle

\* QimenGenerator(year, month, day, hour) for a date the adapter accepts
Construct ==
    /\ pc = "new"
    /\ \E d_gz \in DayPillars, h_gz \in Pillars, jq \in Terms :
           lunar' = LunarOf(d_gz, h_gz, jq)
    /\ self' = NewSelf
    /\ pc' = "ready"
    /\ UNCHANGED <<calls, chart, first, response>>
    /\ UNCHANGED agentVars

\* QimenGenerator(...) on an adapter that builds but whose later calls raise
ConstructFaulty ==
    /\ pc = "new"
    /\ lunar' = LunarFault
    /\ self' = NewSelf
    /\ pc' = "ready"
    /\ UNCHANGED <<calls, chart, first, response>>
    /\ UNCHANGED agentVars

\* QimenGenerator(...) raising in datetime() or Solar.fromYmdHms()
ConstructRaises ==
    /\ pc = "new"
    /\ pc' = "raised"
    /\ UNCHANGED <<lunar, self, calls, chart, first, response>>
    /\ UNCHANGED agentVars

\* generator.generate(), called directly or by to_string()
Generate ==
    /\ pc = "ready"
    /\ calls < MaxCalls
    /\ \E g \in {generate(self, lunar)} :
           /\ self' = g.self
           /\ chart' = g.ret
           /\ first' = IF calls = 0 THEN g.ret ELSE first
           /\ pc' = IF g.self.exc # "" THEN "raised" ELSE "ready"
    /\ calls' = calls + 1
    /\ UNCHANGED <<lunar, response>>
    /\ UNCHANGED agentVars

\* except <handler>: whether it catches an exception of type exc
Catches(handler, exc) == handler = "Exception" \/ handler = exc

\* qimen.py line 22: except ValueError
TimestampHandler == "ValueError"

\* Mutant of GenerationHandler: except ValueError, as the first handler.
GenerationHandler_narrow == "ValueError"

\* qimen.py line 30: except Exception
GenerationHandler == "Exception"

\* json.dumps({"error": ...})
ErrorResult(msg, detail) == [kind |-> "error", error |-> <<msg>> \o detail, chart |-> None]

\* An exception that no handler caught leaves qmdj_chart_api.
Escaped(exc) == [kind |-> "raised", error |-> <<exc>>, chart |-> None]

\* qmdj_chart_api(timestamp).  parses: datetime.fromisoformat accepts the
\* timestamp (it raises ValueError otherwise); builds: QimenGenerator(...)
\* returns (datetime() or the adapter raises otherwise); lu: the adapter's
\* answers.  The generator is local to the call.
ApiResponse(parses, builds, lu) ==
    IF ~parses
    THEN (IF Catches(TimestampHandler, "ValueError")
          THEN ErrorResult("Invalid timestamp format", << >>)
          ELSE Escaped("ValueError"))
    ELSE LET g == IF builds THEN generate(NewSelf, lu)
                  ELSE [self |-> [NewSelf EXCEPT !.exc = "ValueError"], ret |-> None]
             exc == g.self.exc
         IN  IF exc = ""
             THEN [kind |-> "chart", error |-> << >>, chart |-> g.ret]
             ELSE IF Catches(GenerationHandler, exc)
             THEN ErrorResult("Chart generation failed", <<exc>>)
             ELSE Escaped(exc)

qmdj_chart_api ==
    /\ pc = "new"
    /\ \E parses \in BOOLEAN, builds \in BOOLEAN,
          lu \in {LunarOf(d, h, jq) : d \in DayPillars, h \in Pillars, jq \in Terms}
                 \cup {LunarFault} :
           \E r \in {ApiResponse(parses, builds, lu)} :
               /\ response' = r
               /\ pc' = IF r.kind = "raised" THEN "raised" ELSE "returned"
    /\ UNCHANGED <<lunar, self, calls, chart, first>>
    /\ UNCHANGED agentVars

Next ==
    \/ Construct
    \/ ConstructFaulty
    \/ ConstructRaises
    \/ Generate
    \/ qmdj_chart_api

Spec == Init /\ [][Next]_vars

\* ------------------------------------------------------------ the door step alone

\* The largest diff_hours the door step is given.  (hour branch index - Xun
\* Shou branch index) % 12 is below 12 for any two branches.
MaxDiffHours == 11

\* The palace numbers: the keys of STAR_MAP.
PalaceNumbers == DictKeys(STAR_MAP)

\* _generate_plates at line 308: lead_loc and diff_hours are any palace and
\* any difference of two branch indexes, the polarity either one.
InitDoor ==
    /\ pc = "door"
    /\ lunar = NoLunar
    /\ \E l \in PalaceNumbers, d \in 0..MaxDiffHours, yy \in {"yang", "yin"} :
           self = [NewSelf EXCEPT !.yin_yang = yy,
                                  !.locals = [lead_loc |-> l, target_loc |-> 0,
                                              diff_hours |-> d, dest_door_loc |-> 0]]
    /\ calls = 0
    /\ chart = None
    /\ first = None
    /\ response = NoResponse
    /\ AgentsIdle

\* lines 315-323: the commanding door moves
MoveZhiShi ==
    /\ pc = "door"
    /\ self' = [self EXCEPT !.locals.dest_door_loc =
                    DestDoorLoc(self.locals.lead_loc, self.locals.diff_hours,
                                self.yin_yang)]
    /\ pc' = "door_moved"
    /\ UNCHANGED <<lunar, calls, chart, first, response>>
    /\ UNCHANGED agentVars

NextDoor == MoveZhiShi

SpecDoor == InitDoor /\ [][NextDoor]_vars

\* ------------------------------------------------------------ the Yuan alone

\* The solar terms of the instances whose Yuan is computed: one of each half
\* of the year.
YuanTerms == {"dongzhi", "xiazhi"}

\* An instance built for any day of the sexagenary cycle.
InitYuan ==
    /\ pc = "base"
    /\ \E d_gz \in Pillars, jq \in YuanTerms : lunar = LunarOf(d_gz, Pillar(0), jq)
    /\ self = NewSelf
    /\ calls = 0
    /\ chart = None
    /\ first = None
    /\ response = NoResponse
    /\ AgentsIdle

\* self._calc_base_info()
BaseInfo ==
    /\ pc = "base"
    /\ self' = calc_base_info(self, lunar)
    /\ pc' = "based"
    /\ UNCHANGED <<lunar, calls, chart, first, response>>
    /\ UNCHANGED agentVars

NextYuan == BaseInfo

SpecYuan == InitYuan /\ [][NextYuan]_vars

\* ------------------------------------------------------------ the energy layer

\* Mutant of branch_to_palace: you is given palace 6, the palace of the next
\* branch.
branch_to_palace_slipped ==
    << <<"zi", 1>>, <<"wei", 2>>, <<"shen", 2>>, <<"mao", 3>>, <<"chen", 4>>, <<"si", 4>>,
       <<"xu", 6>>, <<"hai", 6>>, <<"you", 6>>, <<"chou", 8>>, <<"yin2", 8>>, <<"wu3", 9>> >>

\* qimen.py, get_palace_for_branch: its table
branch_to_palace ==
    << <<"zi", 1>>, <<"wei", 2>>, <<"shen", 2>>, <<"mao", 3>>, <<"chen", 4>>, <<"si", 4>>,
       <<"xu", 6>>, <<"hai", 6>>, <<"you", 7>>, <<"chou", 8>>, <<"yin2", 8>>, <<"wu3", 9>> >>

get_palace_for_branch(branch) == DictGet(branch_to_palace, branch, 0)

diagonal_map ==
    << <<1, 9>>, <<2, 8>>, <<3, 7>>, <<4, 6>>, <<6, 4>>, <<7, 3>>, <<8, 2>>, <<9, 1>>,
       <<5, 0>> >>

get_diagonal_palace(palace) == DictGet(diagonal_map, palace, 0)

\* str(i) for a palace number
StrOfInt(i) == At(<<"0", "1", "2", "3", "4", "5", "6", "7", "8", "9">>, i)

\* json.loads(json.dumps(chart_data)): the integer keys of palaces come back
\* as strings.
JsonChart(chart_data) ==
    [chart_data EXCEPT !.palaces =
        [k \in 1..Len(chart_data.palaces) |->
            <<StrOfInt(chart_data.palaces[k][1]), chart_data.palaces[k][2]>>]]

\* _get_palace_data for palaces held as a dict: the string key first, then
\* the integer key; None (here a record without fields of a palace) when
\* neither is there.
get_palace_data(palaces, palace_num) ==
    IF DictHas(palaces, StrOfInt(palace_num))
    THEN DictGet(palaces, StrOfInt(palace_num), None)
    ELSE DictGet(palaces, palace_num, None)

\* palace_data.get("heaven_stem", "") of (_get_palace_data(...) or {})
HeavenStemOf(palaces, palace_num) ==
    IF get_palace_data(palaces, palace_num) = None
    THEN << >>
    ELSE get_palace_data(palaces, palace_num).heaven_stem

\* find_palaces_with_stem, as the set of the palaces found
find_palaces_with_stem(chart_data, stem) ==
    {palace_num \in 1..9 : InStr(stem, HeavenStemOf(chart_data.palaces, palace_num))}

\* lines 134-140 and 244-249: tai_sui_palaces
TaiSuiPalaces(chart_data) ==
    find_palaces_with_stem(chart_data, At(chart_data.gan_zhi.year, 0))
    \cup ({get_palace_for_branch(At(chart_data.gan_zhi.year, 1))} \ {0})

\* lines 143-148 and 252-256: de_palaces
DePalaces(chart_data) ==
    {get_palace_for_branch(chart_data.empty_death[k]) :
        k \in 1..Len(chart_data.empty_death)} \ {0}

\* lines 258-266: affected_palaces, as a set
AffectedPalaces(chart_data) ==
    {get_diagonal_palace(ts) :
        ts \in TaiSuiPalaces(chart_data) \ DePalaces(chart_data)}
    \ ({0} \cup TaiSuiPalaces(chart_data))

\* detect_diagonal_overflow on the JSON text of chart_data; the sorted lists
\* it returns are sets here.
detect_diagonal_overflow(chart_data) ==
    IF Len(chart_data.gan_zhi.year) = 0
    THEN [overflow_detected |-> FALSE, affected_palaces |-> {},
          tai_sui_palaces |-> {}, de_palaces |-> {}]
    ELSE [overflow_detected |-> AffectedPalaces(chart_data) # {},
          affected_palaces |-> AffectedPalaces(chart_data),
          tai_sui_palaces |-> TaiSuiPalaces(chart_data),
          de_palaces |-> DePalaces(chart_data)]

\* calculate_box_energy, steps 4-8, for one palace: every step touches a
\* palace at most once, so the palaces do not depend on one another.  The
\* modifiers are kept as the list that step 8 joins with ", ", <<"normal">>
\* when it is empty; the details texts are left out.
PalaceEnergy(palace, de, ts, affected) ==
    LET overflow == palace \in affected /\ palace \notin ts
        modifier ==
            (IF palace \in de THEN <<"death_emptiness">> ELSE << >>)
            \o (IF palace \in ts
                THEN (IF palace \in de THEN <<"tai_sui_override">> ELSE <<"tai_sui">>)
                ELSE << >>)
            \o (IF overflow THEN <<"overflow_from_tai_sui">> ELSE << >>)
        energy ==
            IF overflow THEN (IF palace \in de THEN 100 ELSE 150)
            ELSE IF palace \in ts THEN (IF palace \in de THEN 100 ELSE 150)
            ELSE IF palace \in de THEN 20
            ELSE 100
    IN  [energy |-> energy,
         modifier |-> IF modifier = << >> THEN <<"normal">> ELSE modifier]

\* calculate_box_energy on the JSON text of chart_data
calculate_box_energy(chart_data) ==
    IF Len(chart_data.gan_zhi.year) # 2
    THEN [error |-> "Invalid year gan_zhi format", palaces |-> << >>,
          summary |-> [tai_sui_palaces |-> {}, de_palaces |-> {}]]
    ELSE [error |-> "",
          palaces |->
              [i \in 1..9 |->
                  <<StrOfInt(i),
                    PalaceEnergy(i, DePalaces(chart_data), TaiSuiPalaces(chart_data),
                                 IF detect_diagonal_overflow(chart_data).overflow_detected
                                 THEN detect_diagonal_overflow(chart_data).affected_palaces
                                 ELSE {})>>],
          summary |-> [tai_sui_palaces |-> TaiSuiPalaces(chart_data),
                       de_palaces |-> DePalaces(chart_data)]]

\* The solar terms of the charts handed to the energy layer.
EnergyTerms == {"dongzhi", "qingming", "qiufen"}

\* A chart that qmdj_chart_api returned, for any hour pillar.
InitEnergy ==
    /\ pc = "chart"
    /\ lunar = NoLunar
    /\ self = NewSelf
    /\ calls = 0
    /\ \E h_gz \in Pillars, jq \in EnergyTerms :
           chart = generate(NewSelf, LunarOf(Pillar(0), h_gz, jq)).ret
    /\ first = None
    /\ response = NoResponse
    /\ AgentsIdle

\* calculate_box_energy(chart_json)
CalculateBoxEnergy ==
    /\ pc = "chart"
    /\ response' = [kind |-> "energy", error |-> << >>,
                    chart |-> calculate_box_energy(JsonChart(chart))]
    /\ pc' = "energy"
    /\ UNCHANGED <<lunar, self, calls, chart, first>>
    /\ UNCHANGED agentVars

\* detect_diagonal_overflow(chart_json)
DetectDiagonalOverflow ==
    /\ pc = "chart"
    /\ response' = [kind |-> "overflow", error |-> << >>,
                    chart |-> detect_diagonal_overflow(JsonChart(chart))]
    /\ pc' = "overflow"
    /\ UNCHANGED <<lunar, self, calls, chart, first>>
    /\ UNCHANGED agentVars

NextEnergy ==
    \/ CalculateBoxEnergy
    \/ DetectDiagonalOverflow

SpecEnergy == InitEnergy /\ [][NextEnergy]_vars

\* ------------------------------------------------------------ the todos reducer

\* state.py: ALLOWED_STATUSES.
ALLOWED_STATUSES == <<"pending", "in_progress", "completed">>

\* A todo is a dict with the keys content, owner and status; "none" stands for
\* a key the dict does not have.
Todo(content, owner, status) == [content |-> content, owner |-> owner, status |-> status]

\* item.get('status', 'pending')
StatusOf(item) == IF item.status = "none" THEN "pending" ELSE item.status

\* The checks merge_todos makes on an item of the update: it has a content,
\* and its status is an allowed one.
ValidItem(item) == item.content # "none" /\ CharIn(StatusOf(item), ALLOWED_STATUSES)

\* The key of the lookup: (content, owner).
KeyOf(item) == <<item.content, item.owner>>

\* existing_lookup.get(key): the dict comprehension keeps, of the existing
\* items of one key, the last; << >> when there is none.
ExistingLookup(existing, key) ==
    IF \E i \in 1..Len(existing) : KeyOf(existing[i]) = key
    THEN <<existing[CHOOSE i \in 1..Len(existing) :
                /\ KeyOf(existing[i]) = key
                /\ \A j \in (i + 1)..Len(existing) : KeyOf(existing[j]) # key]>>
    ELSE << >>

\* The item merge_todos appends for an item of the update: the new item with
\* the old status where the old one is further on, the new item as it is when
\* the key is new.
MergedItem(old_item, new_item) ==
    IF old_item = << >> THEN new_item
    ELSE IF StatusOf(old_item[1]) = "completed" /\ StatusOf(new_item) # "completed"
         THEN [new_item EXCEPT !.status = "completed"]
    ELSE IF StatusOf(old_item[1]) = "in_progress" /\ StatusOf(new_item) = "pending"
         THEN [new_item EXCEPT !.status = "in_progress"]
    ELSE new_item

\* The result of merge_todos: the list returned, or raised for the ValueError.
\* existing is [is_none, items]; new_updates is [kind, items] with kind
\* "none", "list" or "other". validates_first tells the qmdj reducer, which
\* checks the items of the first update, from the tiktok one, which does not.
merge_todos(existing, new_updates, validates_first) ==
    IF new_updates.kind = "none"
    THEN [raised |-> FALSE, value |-> existing.items]
    ELSE IF new_updates.kind # "list"
    THEN [raised |-> TRUE, value |-> << >>]
    ELSE IF existing.items = << >>
    THEN IF validates_first /\ \E i \in 1..Len(new_updates.items) : ~ValidItem(new_updates.items[i])
         THEN [raised |-> TRUE, value |-> << >>]
         ELSE [raised |-> FALSE, value |-> new_updates.items]
    ELSE IF \E i \in 1..Len(new_updates.items) : ~ValidItem(new_updates.items[i])
    THEN [raised |-> TRUE, value |-> << >>]
    ELSE [raised |-> FALSE,
          value |-> [i \in 1..Len(new_updates.items) |->
                        MergedItem(ExistingLookup(existing.items, KeyOf(new_updates.items[i])),
                                   new_updates.items[i])]]

\* The number of updates reduced into one channel.
MaxUpdates == 3

\* The longest list of todos an update carries.
MaxTodos == 2

\* The agents whose state has a todos channel.
TodoAgents == {"qmdj", "tiktok"}

\* The todos the updates speak of: one content under two owners, another
\* content under the first owner.
TodoKeys == {<<"a", "x">>, <<"a", "y">>, <<"b", "x">>}

\* The items of an update: each key at each allowed status, one item with no
\* status, one with a status that is not allowed, one with no content.
UpdateItems ==
    {Todo(k[1], k[2], ALLOWED_STATUSES[s]) : k \in TodoKeys, s \in 1..Len(ALLOWED_STATUSES)}
    \cup {Todo("a", "x", "none"), Todo("a", "x", "done"), Todo("none", "x", "pending")}

\* The updates: None, something that is not a list, and the lists of items.
Updates ==
    {[kind |-> "none", items |-> << >>], [kind |-> "other", items |-> << >>]}
    \cup {[kind |-> "list", items |-> l] :
            l \in UNION {[1..n -> UpdateItems] : n \in 0..MaxTodos}}

\* The place of a status in pending < in_progress < completed, -1 for a
\* status outside it.
StatusRank(status) == Index(ALLOWED_STATUSES, status)

\* The rank of the status the channel holds for a key, as the lookup sees it;
\* -1 when the channel has no todo of that key.
KeyStatus(items, key) ==
    IF ExistingLookup(items, key) = << >> THEN -1
    ELSE StatusRank(StatusOf(ExistingLookup(items, key)[1]))

\* A channel that has not been written: its value is None.
InitTodos ==
    /\ pc = "todos"
    /\ lunar = NoLunar
    /\ self = NewSelf
    /\ calls = 0
    /\ chart = None
    /\ first = None
    /\ response = NoResponse
    /\ todos \in {[agent |-> a, is_none |-> TRUE, items |-> << >>, updates |-> 0, raised |-> FALSE] :
                    a \in TodoAgents}
    /\ progress = [k \in TodoKeys |-> -1]
    /\ rotating = NoModel

\* The channel after the reducer has run on its value and one update; a
\* ValueError leaves the value as it was.
Reduced(update) ==
    IF merge_todos(todos, update, todos.agent = "qmdj").raised
    THEN [todos EXCEPT !.updates = @ + 1, !.raised = TRUE]
    ELSE [todos EXCEPT !.updates = @ + 1, !.raised = FALSE, !.is_none = FALSE,
                       !.items = merge_todos(todos, update, todos.agent = "qmdj").value]

\* One update is reduced into the channel.
MergeTodos ==
    /\ pc = "todos"
    /\ todos.updates < MaxUpdates
    /\ \E update \in Updates :
        /\ todos' = Reduced(update)
        /\ progress' = [k \in TodoKeys |->
                          IF KeyStatus(Reduced(update).items, k) > progress[k]
                          THEN KeyStatus(Reduced(update).items, k) ELSE progress[k]]
    /\ UNCHANGED <<pc, lunar, self, calls, chart, first, response, rotating>>

NextTodos == MergeTodos

SpecTodos == InitTodos /\ [][NextTodos]_vars

\* ------------------------------------------------------------ the rotating model

\* The number of API keys a model is built with.
MaxKeys == 3

\* The number of requests one model serves.
MaxRequests == 2

\* The two agents' classes and the two entry points.
RotatingAgents == {"qmdj", "tiktok"}
RotatingMethods == {"_generate", "_agenerate"}

\* What one call of the underlying model does: it returns a result, returns a
\* leaked ClientResponse object, returns something else without generations,
\* raises a rate-limit error, raises the error of a leaked response, or raises
\* another error.
CallOutcomes == {"result", "ClientResponse", "no_generations", "rate_limit", "leaked", "other_error"}

\* The error the except clause sees for an outcome: a malformed result is
\* raised as a TypeError naming the type of the result, and the qmdj
\* _agenerate raises the error of a leaked response again as a TypeError of
\* its own.
CaughtError(agent, method, outcome) ==
    IF outcome = "ClientResponse" /\ agent = "qmdj" /\ method = "_agenerate"
    THEN "ClientResponse error caught"
    ELSE IF outcome = "ClientResponse" THEN "Malformed result: ClientResponse"
    ELSE IF outcome = "no_generations" THEN "Malformed result"
    ELSE IF outcome = "leaked" /\ agent = "qmdj" /\ method = "_agenerate"
    THEN "ClientResponse error caught"
    ELSE outcome

\* is_rate_limit or is_leaked_response (qmdj), _should_rotate (tiktok).
ShouldRotate(error) ==
    error \in {"rate_limit", "leaked", "ClientResponse error caught", "Malformed result: ClientResponse"}

\* max_attempts = len(self.api_keys) * 2, a variant with one attempt a key
MaxAttempts_once(api_keys) == api_keys

\* max_attempts = len(self.api_keys) * 2
MaxAttempts(api_keys) == api_keys * 2

\* The message of the exception raised after the loop.
MaxRetryMessage(agent) ==
    IF agent = "qmdj" THEN "Max retry attempts exceeded due to rate limits."
    ELSE "Max retry attempts exceeded."

\* _rotate_key: the model after the call and the value returned.
rotate_key(model) ==
    IF (model.current_key_index + 1) % model.api_keys = model.current_key_index
       /\ model.api_keys = 1
    THEN [self |-> model, ret |-> FALSE]
    ELSE [self |-> [model EXCEPT !.current_key_index = (@ + 1) % model.api_keys], ret |-> TRUE]

\* A model just constructed: the first key is current, no request made.
InitRotating ==
    /\ pc = "model"
    /\ lunar = NoLunar
    /\ self = NewSelf
    /\ calls = 0
    /\ chart = None
    /\ first = None
    /\ response = NoResponse
    /\ todos = NoTodos
    /\ progress = NoProgress
    /\ rotating \in {[api_keys |-> n, current_key_index |-> 0, pc |-> "idle", agent |-> a,
                      method |-> "", requests |-> 0, attempts |-> 0, max_attempts |-> 0,
                      model_calls |-> 0, first_key |-> 0, last |-> "", error |-> ""] :
                        n \in 1..MaxKeys, a \in RotatingAgents}

\* _generate or _agenerate is entered: attempts = 0, max_attempts is set.
BeginGenerate ==
    /\ pc = "model"
    /\ rotating.pc \in {"idle", "returned", "raised"}
    /\ rotating.requests < MaxRequests
    /\ \E method \in RotatingMethods :
        rotating' = [rotating EXCEPT !.pc = "loop", !.method = method,
                                     !.requests = @ + 1, !.attempts = 0,
                                     !.max_attempts = MaxAttempts(rotating.api_keys),
                                     !.model_calls = 0,
                                     !.first_key = rotating.current_key_index,
                                     !.last = "", !.error = ""]
    /\ UNCHANGED <<pc, lunar, self, calls, chart, first, response, todos, progress>>

\* The model after one pass of the loop body whose call had this outcome.
AfterCall(model, outcome) ==
    IF outcome = "result" THEN [model EXCEPT !.pc = "returned"]
    ELSE IF ShouldRotate(CaughtError(model.agent, model.method, outcome))
            /\ rotate_key(model).ret
    THEN [rotate_key(model).self EXCEPT !.attempts = @ + 1]
    ELSE [model EXCEPT !.pc = "raised",
                       !.error = CaughtError(model.agent, model.method, outcome)]

\* One pass of the while loop: the underlying model is called once.
ModelCall ==
    /\ pc = "model"
    /\ rotating.pc = "loop"
    /\ rotating.attempts < rotating.max_attempts
    /\ \E outcome \in CallOutcomes :
        rotating' = AfterCall([rotating EXCEPT !.model_calls = @ + 1, !.last = outcome], outcome)
    /\ UNCHANGED <<pc, lunar, self, calls, chart, first, response, todos, progress>>

\* The loop ends with the attempts used up: the exception after it is raised.
MaxRetry ==
    /\ pc = "model"
    /\ rotating.pc = "loop"
    /\ ~(rotating.attempts < rotating.max_attempts)
    /\ rotating' = [rotating EXCEPT !.pc = "raised", !.error = MaxRetryMessage(rotating.agent)]
    /\ UNCHANGED <<pc, lunar, self, calls, chart, first, response, todos, progress>>

NextRotating == BeginGenerate \/ ModelCall \/ MaxRetry

\* The loop is straight-line code around a call that returns or raises: a pass
\* that can be made is made.
SpecRotating ==
    InitRotating /\ [][NextRotating]_vars /\ WF_vars(ModelCall) /\ WF_vars(MaxRetry)

\* ------------------------------------------------------------ properties

\* generate() has returned a chart on the instance.
Returned == pc = "ready" /\ calls >= 1

Range(list) == {list[i] : i \in 1..Len(list)}

BlankRecord ==
    [palace_name |-> "", earth_stem |-> "", heaven_stem |-> << >>, star |-> "",
     door |-> "", deity |-> "", markers |-> << >>, all_symbols |-> << >>]

\* The record of palace p in the returned chart.
Rec(p) == DictGet(chart.palaces, p, BlankRecord)

\* plate, a dict of the instance, puts the symbols of ring one-to-one onto
\* the eight non-center palaces.
IsRingBijection(plate, ring) ==
    /\ \A p \in NonCenterPalaces :
           Cardinality({i \in 1..Len(plate) : plate[i][1] = p}) = 1
    /\ \A p \in NonCenterPalaces : DictGet(plate, p, "") \in Range(ring)
    /\ \A sym \in Range(ring) :
           Cardinality({p \in NonCenterPalaces : DictGet(plate, p, "") = sym}) = 1

\* C1: whenever generate() has returned, each of the star plate, the door
\* plate and the deity plate places every symbol of its 8-symbol ring on
\* exactly one of the 8 non-center palaces, and every non-center palace holds
\* exactly one symbol of the ring.
C1_PlatesAreBijections ==
    Returned =>
        /\ IsRingBijection(self.heaven_plate, STD_STAR_RING)
        /\ IsRingBijection(self.man_plate, STD_DOOR_RING)
        /\ IsRingBijection(self.deity_plate, DEITIES)

\* C1 witness: a Yin Dun chart whose target stem sits on the center palace,
\* where the star and deity anchors take their fallbacks.
C1_Witness ==
    /\ Returned
    /\ self.yin_yang = "yin"
    /\ self.locals.target_loc = 5
    /\ self.locals.dest_door_loc = 5

\* The characters of the earth stems of palaces 1..9, palace by palace.
RECURSIVE EarthStemChars(_)
EarthStemChars(p) ==
    IF p > 9 THEN << >> ELSE Str(Rec(p).earth_stem) \o EarthStemChars(p + 1)

\* How many times ch occurs in list.
Count(list, ch) == Cardinality({i \in 1..Len(list) : list[i] = ch})

C3_CenterIdenticalToSameEarthStem ==
    Returned =>
        \E p \in NonCenterPalaces :
            /\ Rec(p).earth_stem = Rec(5).earth_stem
            /\ Rec(p) = Rec(5)

\* C3 amended: palace 5's record has the heaven_stem, star, door, deity and
\* markers of some other palace whose heaven_stem contains palace 5's earth
\* stem; its earth_stem and palace_name are its own, and differ from that
\* palace's.
C3_CenterLodgesByHeavenStem ==
    Returned =>
        \E p \in NonCenterPalaces :
            /\ CharIn(Rec(5).earth_stem, Rec(p).heaven_stem)
            /\ Rec(5).heaven_stem = Rec(p).heaven_stem
            /\ Rec(5).star = Rec(p).star /\ Rec(5).star # ""
            /\ Rec(5).door = Rec(p).door
            /\ Rec(5).deity = Rec(p).deity
            /\ Rec(5).markers = Rec(p).markers
            /\ Rec(5).earth_stem # Rec(p).earth_stem
            /\ Rec(5).palace_name = "zhong" /\ Rec(p).palace_name # "zhong"

\* C3 witness: the center lodges in a palace above 5 that carries a marker.
C3_Witness ==
    /\ Returned
    /\ \E p \in {6, 7, 8, 9} :
           /\ Rec(p).star = "tianrui"
           /\ Rec(p).markers # << >>
           /\ Rec(5).markers = Rec(p).markers

PalaceFields ==
    {"palace_name", "earth_stem", "heaven_stem", "star", "door", "deity",
     "markers", "all_symbols"}

\* palaces is a map with exactly the keys 1..9, each entry a full record.
IsNinePalaceMap(palaces) ==
    /\ Len(palaces) = 9
    /\ DictKeys(palaces) = 1..9
    /\ \A i \in 1..Len(palaces) : DOMAIN palaces[i][2] = PalaceFields

\* C4: every chart that generate() returns, to a direct caller or to
\* qmdj_chart_api, has a palaces map with exactly the nine keys 1..9, each
\* entry with the eight fields of a palace record.
C4_NinePalaces ==
    /\ Returned => IsNinePalaceMap(chart.palaces)
    /\ (pc = "returned" /\ response.kind = "chart") =>
           IsNinePalaceMap(response.chart.palaces)

\* C4 witness: a chart came back through qmdj_chart_api.
C4_Witness ==
    /\ pc = "returned"
    /\ response.kind = "chart"
    /\ DictHas(response.chart.palaces, 9)
    /\ DictGet(response.chart.palaces, 5, BlankRecord).star = "tianrui"

HourStemIdx == Index(TIAN_GAN, At(chart.gan_zhi.hour, 0))
HourBranchIdx == Index(DI_ZHI, At(chart.gan_zhi.hour, 1))

\* The Travelling Horse branch of each hour branch, by triad.
HorseTable(b) ==
    CASE b \in {"shen", "zi", "chen"} -> "yin2"
      [] b \in {"yin2", "wu3", "xu"} -> "shen"
      [] b \in {"si", "you", "chou"} -> "hai"
      [] b \in {"hai", "mao", "wei"} -> "si"

\* C6: horse_star of a returned chart is the triad branch of the chart's hour
\* branch (yin2 for shen-zi-chen, shen for yin2-wu3-xu, hai for si-you-chou,
\* si for hai-mao-wei), so it is never empty and the same for every chart
\* with that hour branch.
C6_HorseStarByTriad ==
    Returned =>
        /\ chart.horse_star = HorseTable(At(chart.gan_zhi.hour, 1))
        /\ chart.horse_star \in {"yin2", "shen", "hai", "si"}

\* C6 witness: an hour of the hai-mao-wei triad whose stem is not jia, in Yin
\* Dun.
C6_Witness ==
    /\ Returned
    /\ chart.gan_zhi.hour = <<"gui", "wei">>
    /\ chart.yin_yang = "yin"
    /\ chart.horse_star = "si"

\* The two Empty/Death branches of each Xun Shou branch.
EmptyTable(xun) ==
    CASE xun = "zi" -> <<"xu", "hai">>
      [] xun = "xu" -> <<"shen", "you">>
      [] xun = "shen" -> <<"wu3", "wei">>
      [] xun = "wu3" -> <<"chen", "si">>
      [] xun = "chen" -> <<"yin2", "mao">>
      [] xun = "yin2" -> <<"zi", "chou">>
      [] OTHER -> << >>

\* C7: empty_death of a returned chart is exactly the two branches that the
\* table gives for the Xun Shou branch (hour branch index - hour stem index)
\* mod 12 of the chart's hour pillar; it is never empty.
C7_EmptyDeathByXunShou ==
    Returned =>
        /\ chart.empty_death =
               EmptyTable(At(DI_ZHI, (HourBranchIdx - HourStemIdx) % 12))
        /\ Len(chart.empty_death) = 2
        /\ \A k \in 1..2 : chart.empty_death[k] \in Range(DI_ZHI)

\* C7 witness: the hour bing-zi of the Xun of jia-xu, where the branch index
\* minus the stem index is negative.
C7_Witness ==
    /\ Returned
    /\ chart.gan_zhi.hour = <<"bing", "zi">>
    /\ chart.empty_death = <<"shen", "you">>

\* C8: qmdj_chart_api lets no exception escape; a timestamp that does not
\* parse, a generator that cannot be built and a generate() that raises each
\* give one result carrying an error message and no chart, and a result
\* without an error carries a full chart.
C8_ApiCatchesEverything ==
    /\ response.kind # "raised"
    /\ response.kind = "error" =>
           /\ pc = "returned"
           /\ Len(response.error) >= 1
           /\ response.chart = None
    /\ response.kind = "chart" =>
           /\ pc = "returned"
           /\ response.error = << >>
           /\ IsNinePalaceMap(response.chart.palaces)
    /\ pc = "returned" => response.kind \in {"error", "chart"}

\* C8 witness: generate() raised inside qmdj_chart_api and came back as an
\* error result.
C8_Witness ==
    /\ pc = "returned"
    /\ response.kind = "error"
    /\ response.error = <<"Chart generation failed", "AdapterError">>

\* The twelve terms from the winter solstice to mangzhong, and the other twelve.
YangHalf ==
    {"dongzhi", "xiaohan", "dahan", "lichun", "yushui", "jingzhe",
     "chunfen", "qingming", "guyu", "lixia", "xiaoman", "mangzhong"}

YinHalf ==
    {"xiazhi", "xiaoshu", "dashu", "liqiu", "chushu", "bailu",
     "qiufen", "hanlu", "shuangjiang", "lidong", "xiaoxue", "daxue"}

\* C9 as stated: for a term of the Ju table the chart is Yang Dun exactly when
\* the term is one of the twelve from the winter solstice to mangzhong, and
\* Yin Dun exactly when it is one of the other twelve.
C9_YangDunIffYangHalf ==
    (Returned /\ chart.solar_term \in DictKeys(JU_MAP)) =>
        /\ chart.yin_yang = "yang" <=> chart.solar_term \in YangHalf
        /\ chart.yin_yang = "yin" <=> chart.solar_term \in YinHalf

\* The non-center palace holding sym on plate, 0 when there is none.
PalaceOn(plate, sym) ==
    IF \E p \in NonCenterPalaces : DictGet(plate, p, "") = sym
    THEN CHOOSE p \in NonCenterPalaces : DictGet(plate, p, "") = sym
    ELSE 0

\* C10 as stated: the deity zhifu is on the palace that holds the commanding
\* star (tianrui standing for tianqin) on the star plate, also when the target
\* stem is on palace 5.
C10_LeadDeityOnLeadStar ==
    Returned =>
        PalaceOn(self.deity_plate, "zhifu") =
            PalaceOn(self.heaven_plate,
                     IF self.zhi_fu_star = "tianqin" THEN "tianrui"
                     ELSE self.zhi_fu_star)

\* C11: in every returned chart exactly one non-center palace has a
\* heaven_stem containing palace 5's earth stem, and palace 5's star, door,
\* deity, heaven_stem and markers are those of that palace, as the plates and
\* the chart give them, whether the palace is numbered below or above 5;
\* palace 5's earth_stem and palace_name are its own.
C11_CenterCopiesLodgedPalace ==
    Returned =>
        /\ Cardinality({p \in NonCenterPalaces :
               CharIn(DictGet(self.earth_plate, 5, ""),
                      DictGet(self.heaven_stem_plate, p, << >>))}) = 1
        /\ \A p \in NonCenterPalaces :
               CharIn(DictGet(self.earth_plate, 5, ""),
                      DictGet(self.heaven_stem_plate, p, << >>)) =>
                   /\ Rec(5).star = DictGet(self.heaven_plate, p, "")
                   /\ Rec(5).door = DictGet(self.man_plate, p, "")
                   /\ Rec(5).deity = DictGet(self.deity_plate, p, "")
                   /\ Rec(5).heaven_stem = DictGet(self.heaven_stem_plate, p, << >>)
                   /\ Rec(5).star = Rec(p).star /\ Rec(5).star \in Range(STD_STAR_RING)
                   /\ Rec(5).door = Rec(p).door /\ Rec(5).door \in Range(STD_DOOR_RING)
                   /\ Rec(5).deity = Rec(p).deity /\ Rec(5).deity \in Range(DEITIES)
                   /\ Rec(5).heaven_stem = Rec(p).heaven_stem
                   /\ Rec(5).markers = Rec(p).markers
        /\ Rec(5).earth_stem = DictGet(self.earth_plate, 5, "")
        /\ Rec(5).earth_stem \in Range(pai_gan)
        /\ Rec(5).palace_name = At(PALACE_NAMES, 5)

\* C11 witness: the center lodges in palace 9, the last one the output loop
\* builds, and has its door and deity.
C11_Witness ==
    /\ Returned
    /\ Rec(9).star = "tianrui"
    /\ CharIn(Rec(5).earth_stem, Rec(9).heaven_stem)
    /\ Rec(5).door = Rec(9).door
    /\ Rec(5).door # ""
    /\ Rec(5).deity = Rec(9).deity

\* The palace k numeric steps after palace p in Yang Dun, before it in Yin
\* Dun, on the circle 1..9.
NumericStep(p, k, yin_yang) ==
    IF yin_yang = "yang" THEN ((p - 1 + k) % 9) + 1 ELSE ((p - 1 - k) % 9) + 1

\* C12: in every returned chart the first stem wu4 of the laying sequence is
\* on palace ju_num and the k-th later stem is on the palace k numeric steps
\* after it in Yang Dun (9 wraps to 1) and before it in Yin Dun (1 wraps to
\* 9), palace 5 being one of the steps.
C12_EarthPlateNumericWalk ==
    Returned =>
        /\ Rec(chart.ju_num).earth_stem = "wu4"
        /\ \A k \in 0..(Len(pai_gan) - 1) :
               Rec(NumericStep(chart.ju_num, k, chart.yin_yang)).earth_stem =
                   pai_gan[k + 1]

\* C12 witness: a Yang Dun chart of Ju 7, whose walk wraps from palace 9 to
\* 1 and passes palace 5.
C12_Witness ==
    /\ Returned
    /\ chart.yin_yang = "yang"
    /\ chart.ju_num = 7
    /\ Rec(9).earth_stem = "geng"
    /\ Rec(1).earth_stem = "xin"
    /\ Rec(5).earth_stem = "bing"

\* The lead stem of each Xun Shou branch.
LeadStemTable(b) ==
    CASE b = "zi" -> "wu4"
      [] b = "xu" -> "ji"
      [] b = "shen" -> "geng"
      [] b = "wu3" -> "xin"
      [] b = "chen" -> "ren"
      [] b = "yin2" -> "gui"
      [] OTHER -> ""

\* The star and the door native to each palace, the center having tianqin
\* and simen.
NativeStar(p) ==
    CASE p = 1 -> "tianpeng" [] p = 2 -> "tianrui" [] p = 3 -> "tianchong"
      [] p = 4 -> "tianfu" [] p = 5 -> "tianqin" [] p = 6 -> "tianxin"
      [] p = 7 -> "tianzhu" [] p = 8 -> "tianren" [] p = 9 -> "tianying"
      [] OTHER -> ""

NativeDoor(p) ==
    CASE p = 1 -> "xiumen" [] p = 2 -> "simen" [] p = 3 -> "shangmen"
      [] p = 4 -> "dumen" [] p = 5 -> "simen" [] p = 6 -> "kaimen"
      [] p = 7 -> "jing1men" [] p = 8 -> "shengmen" [] p = 9 -> "jing3men"
      [] OTHER -> ""

\* The Xun Shou branch of the returned chart's hour pillar.
XunShouBranch == At(DI_ZHI, (HourBranchIdx - HourStemIdx) % 12)

\* C13: in every returned chart xun_shou is jia, the Xun Shou branch of the
\* hour pillar and the lead stem the table gives for that branch; lead_loc is
\* the palace whose earth stem is the lead stem; zhi_fu is the star and
\* zhi_shi the door native to lead_loc, tianqin and simen when lead_loc is 5.
C13_LeadStemStarAndDoor ==
    Returned =>
        /\ chart.xun_shou = <<"jia", XunShouBranch, LeadStemTable(XunShouBranch)>>
        /\ LeadStemTable(XunShouBranch) # ""
        /\ self.locals.lead_loc \in 1..9
        /\ Rec(self.locals.lead_loc).earth_stem = LeadStemTable(XunShouBranch)
        /\ chart.zhi_fu = NativeStar(self.locals.lead_loc)
        /\ chart.zhi_shi = NativeDoor(self.locals.lead_loc)

\* C13 witness: the lead stem geng of the Xun of jia-shen is on the center
\* palace.
C13_Witness ==
    /\ Returned
    /\ chart.xun_shou = <<"jia", "shen", "geng">>
    /\ self.locals.lead_loc = 5
    /\ chart.zhi_fu = "tianqin"
    /\ chart.zhi_shi = "simen"

\* The spatial path and the ring orders of the stars and the doors.
SpatialPath == <<1, 8, 3, 4, 9, 2, 7, 6>>

StarRing ==
    <<"tianpeng", "tianren", "tianchong", "tianfu", "tianying", "tianrui",
      "tianzhu", "tianxin">>

DoorRing ==
    <<"xiumen", "shengmen", "shangmen", "dumen", "jing3men", "simen",
      "jing1men", "kaimen">>

\* The palace i steps after palace p along the spatial path (before it, for a
\* negative i); p is not the center.
PathStep(p, i) == At(SpatialPath, (Index(SpatialPath, p) + i) % 8)

\* Palace 2 stands in for the center.
StandIn(p) == IF p = 5 THEN 2 ELSE p

\* The stem the Heaven Plate is turned to: the hour stem, the lead stem when
\* the hour stem is jia.
TargetStem ==
    IF At(chart.gan_zhi.hour, 0) = "jia"
    THEN LeadStemTable(XunShouBranch)
    ELSE At(chart.gan_zhi.hour, 0)

\* The palace whose earth stem is the target stem.
TargetPalace == CHOOSE p \in 1..9 : Rec(p).earth_stem = TargetStem

\* The commanding star as it is on the plate: tianrui for tianqin.
CommandingStar == IF chart.zhi_fu = "tianqin" THEN "tianrui" ELSE chart.zhi_fu

NativePalace(star) ==
    CASE star = "tianpeng" -> 1 [] star = "tianrui" -> 2 [] star = "tianchong" -> 3
      [] star = "tianfu" -> 4 [] star = "tianxin" -> 6 [] star = "tianzhu" -> 7
      [] star = "tianren" -> 8 [] star = "tianying" -> 9
      [] OTHER -> 0

\* C15: in every returned chart the heaven_stem of a non-center palace is the
\* earth stem of the native palace of the star on it, one stem, except on the
\* palace of tianrui, where it is the earth stem of palace 2 followed by the
\* earth stem of palace 5.
C15_HeavenStemFromStarHome ==
    Returned =>
        \A p \in NonCenterPalaces :
            /\ Rec(p).star \in Range(StarRing)
            /\ Rec(p).star = "tianrui" =>
                   Rec(p).heaven_stem = <<Rec(2).earth_stem, Rec(5).earth_stem>>
            /\ Rec(p).star # "tianrui" =>
                   Rec(p).heaven_stem = <<Rec(NativePalace(Rec(p).star)).earth_stem>>
            /\ \A k \in 1..Len(Rec(p).heaven_stem) :
                   Rec(p).heaven_stem[k] \in Range(pai_gan)

\* C15 witness: tianrui has been turned to palace 7 and tianying to palace 2.
C15_Witness ==
    /\ Returned
    /\ Rec(7).star = "tianrui"
    /\ Len(Rec(7).heaven_stem) = 2
    /\ Rec(2).star = "tianying"
    /\ Rec(2).heaven_stem = <<Rec(9).earth_stem>>

\* The palace n steps from p on the numeric circle 1..9, one step at a time:
\* forward in Yang Dun, 9 stepping to 1; backward in Yin Dun, 1 stepping to 9.
RECURSIVE StepsAlong(_, _, _)
StepsAlong(p, n, yin_yang) ==
    IF n = 0 THEN p
    ELSE StepsAlong(IF yin_yang = "yang" THEN (IF p = 9 THEN 1 ELSE p + 1)
                    ELSE (IF p = 1 THEN 9 ELSE p - 1),
                    n - 1, yin_yang)

\* (hour branch index - Xun Shou branch index) mod 12 of the returned chart
DiffHours == (HourBranchIdx - Index(DI_ZHI, XunShouBranch)) % 12

\* The palace the commanding door moves to.
DoorDest == StepsAlong(self.locals.lead_loc, DiffHours, chart.yin_yang)

\* C16: in every returned chart dest_door_loc is the palace diff_hours numeric
\* steps from lead_loc (forward in Yang Dun, backward in Yin Dun, palace 5
\* counted), the commanding door is on it (on palace 2 when it is the
\* center), and the other seven doors follow in ring order along the spatial
\* path.
C16_DoorsTurnedToDest ==
    Returned =>
        /\ self.locals.diff_hours = DiffHours
        /\ self.locals.dest_door_loc = DoorDest
        /\ DictGet(self.man_plate, StandIn(DoorDest), "") = chart.zhi_shi
        /\ Rec(StandIn(DoorDest)).door = chart.zhi_shi
        /\ chart.zhi_shi \in Range(DoorRing)
        /\ \A i \in 0..7 :
               DictGet(self.man_plate, PathStep(StandIn(DoorDest), i), "") =
                   At(DoorRing, (Index(DoorRing, chart.zhi_shi) + i) % 8)

\* C16 witness: a Yin Dun chart whose commanding door steps back over the
\* 1/9 boundary onto the center and so stands on palace 2.
C16_Witness ==
    /\ Returned
    /\ chart.yin_yang = "yin"
    /\ self.locals.lead_loc < 5
    /\ self.locals.diff_hours > 5
    /\ self.locals.dest_door_loc = 5
    /\ Rec(2).door = chart.zhi_shi

\* The ring of the deities.
DeityRing ==
    <<"zhifu", "tengshe", "taiyin", "liuhe", "baihu", "xuanwu", "jiudi", "jiutian">>

\* The polarity that is not yin_yang.
OtherDun(yin_yang) == IF yin_yang = "yang" THEN "yin" ELSE "yang"

\* The palace of zhifu on the deity plate of the instance.
ZhiFuPalace == PalaceOn(self.deity_plate, "zhifu")

DoorMoved == pc = "door_moved"

\* C17: for every lead_loc in 1..9 and diff_hours in 0..MaxDiffHours the door
\* step leaves dest_door_loc = ((lead_loc - 1 + diff_hours) mod 9) + 1 in Yang
\* Dun and ((lead_loc - 1 - diff_hours) mod 9) + 1 in Yin Dun, a palace of
\* 1..9, and the Yang Dun loop never ends on 0, the value line 319 tests for.
C17_DoorStepIsModulo ==
    /\ DoorMoved =>
           /\ self.yin_yang = "yang" =>
                  self.locals.dest_door_loc =
                      ((self.locals.lead_loc - 1 + self.locals.diff_hours) % 9) + 1
           /\ self.yin_yang = "yin" =>
                  self.locals.dest_door_loc =
                      ((self.locals.lead_loc - 1 - self.locals.diff_hours) % 9) + 1
           /\ self.locals.dest_door_loc \in 1..9
    /\ (pc = "door" /\ self.yin_yang = "yang") =>
           WhileAbove9(self.locals.lead_loc + self.locals.diff_hours) # 0

\* C17 witness: from palace 9, 11 steps forward go twice round the 9/1
\* boundary and end on palace 2.
C17_Witness ==
    /\ DoorMoved
    /\ self.yin_yang = "yang"
    /\ self.locals.lead_loc = 9
    /\ self.locals.diff_hours = 11
    /\ self.locals.dest_door_loc = 2

\* _calc_base_info has run on the instance.
Based == pc = "based"

\* The day pillar of the instance, as stem and branch indexes.
DayStemIdx == Index(TIAN_GAN, At(At(self.gan_zhi, 2), 0))
DayBranchIdx == Index(DI_ZHI, At(At(self.gan_zhi, 2), 1))

\* The offset of the day within its five-day block.
FuTouOffset == IF DayStemIdx < 5 THEN DayStemIdx ELSE DayStemIdx - 5

\* C19: for every day pillar the Fu Tou stem is jia when the day stem index
\* is below 5, with the index as offset, and ji otherwise, with the index - 5
\* as offset; the Fu Tou branch is the branch (day branch index - offset) mod
\* 12; the Yuan is Upper (1) for a Fu Tou branch of zi wu3 mao you, Middle (2)
\* for yin2 shen si hai and Lower (3) for chen xu chou wei.
C19_FuTouAndYuan ==
    Based =>
        /\ At(self.futou, 0) = (IF DayStemIdx < 5 THEN "jia" ELSE "ji")
        /\ At(self.futou, 0) = At(TIAN_GAN, DayStemIdx - FuTouOffset)
        /\ At(self.futou, 1) = At(DI_ZHI, (DayBranchIdx - FuTouOffset) % 12)
        /\ At(self.futou, 1) \in {"zi", "wu3", "mao", "you"} =>
               self.yuan = "shangyuan" /\ self.yuan_idx = 1
        /\ At(self.futou, 1) \in {"yin2", "shen", "si", "hai"} =>
               self.yuan = "zhongyuan" /\ self.yuan_idx = 2
        /\ At(self.futou, 1) \in {"chen", "xu", "chou", "wei"} =>
               self.yuan = "xiayuan" /\ self.yuan_idx = 3
        /\ self.yuan_idx \in 1..3

\* C19 witness: the day gui-chou, whose branch index is smaller than the
\* offset; its Fu Tou is ji-you, of the Upper Yuan.
C19_Witness ==
    /\ Based
    /\ At(self.gan_zhi, 2) = <<"gui", "chou">>
    /\ self.futou = <<"ji", "you">>
    /\ self.yuan_idx = 1

\* The index of each Yuan name.
YuanIndex(yuan) ==
    CASE yuan = "shangyuan" -> 1 [] yuan = "zhongyuan" -> 2 [] yuan = "xiayuan" -> 3
      [] OTHER -> 0

\* C20: after a generate() on an adapter that answers, the call has returned
\* a chart, also for a solar term that is not in the Ju table; ju_num is the
\* number of the term's table entry at the place of the chart's Yuan (first
\* for Upper, second for Middle, third for Lower) and 1 for a term that is
\* not in the table; it is in 1..9.
C20_JuFromTableOrOne ==
    /\ (calls >= 1 /\ ~lunar.fault) => Returned
    /\ Returned =>
           /\ chart.ju_num \in 1..9
           /\ chart.ju_num = self.ju_num
           /\ chart.solar_term \in DictKeys(JU_MAP) =>
                  chart.ju_num =
                      DictGet(JU_MAP, chart.solar_term, << >>)[YuanIndex(chart.yuan)]
           /\ chart.solar_term \notin DictKeys(JU_MAP) => chart.ju_num = 1

\* C20 witness: a chart of the Lower Yuan for a solar term that is not in the
\* table.
C20_Witness ==
    /\ Returned
    /\ chart.solar_term = "unlisted"
    /\ chart.yuan = "xiayuan"
    /\ chart.ju_num = 1
    /\ DictHas(chart.palaces, 9)

\* The home palace of each branch: zi 1, chou 8, yin2 8, mao 3, chen 4, si 4,
\* wu3 9, wei 2, shen 2, you 7, xu 6, hai 6.
HomePalace(b) ==
    CASE b = "zi" -> 1
      [] b \in {"chou", "yin2"} -> 8
      [] b = "mao" -> 3
      [] b \in {"chen", "si"} -> 4
      [] b = "wu3" -> 9
      [] b \in {"wei", "shen"} -> 2
      [] b = "you" -> 7
      [] b \in {"xu", "hai"} -> 6
      [] OTHER -> 0

\* The non-center palaces of the returned chart whose markers contain m.
PalacesMarked(m) == {p \in NonCenterPalaces : CharIn(m, Rec(p).markers)}

\* C21: in every returned chart a non-center palace has the marker ma exactly
\* when it is the home palace of the horse_star branch, and the marker kong
\* exactly when it is the home palace of one of the two empty_death branches;
\* so exactly one non-center palace has ma and one or two have kong.
C21_MarkersByHomePalace ==
    Returned =>
        /\ \A p \in NonCenterPalaces :
               /\ CharIn("ma", Rec(p).markers) <=> p = HomePalace(chart.horse_star)
               /\ CharIn("kong", Rec(p).markers) <=>
                      \E k \in 1..Len(chart.empty_death) :
                          p = HomePalace(chart.empty_death[k])
        /\ Cardinality(PalacesMarked("ma")) = 1
        /\ Cardinality(PalacesMarked("kong")) \in {1, 2}

\* C21 witness: the horse yin2 and the empty branches yin2 and mao: palace 8
\* has both markers, palace 3 has kong.
C21_Witness ==
    /\ Returned
    /\ chart.horse_star = "yin2"
    /\ chart.empty_death = <<"yin2", "mao">>
    /\ Rec(8).markers = <<"ma", "kong">>
    /\ Rec(3).markers = <<"kong">>

\* C22: in every returned chart the markers of every palace 1..9 hold only ma
\* and kong, none twice, so at most two entries, also for palace 5 and also
\* when both empty branches have one home palace or the horse palace is an
\* empty palace.
C22_MarkersAreASet ==
    Returned =>
        \A p \in 1..9 :
            /\ Range(Rec(p).markers) \subseteq {"ma", "kong"}
            /\ Len(Rec(p).markers) = Cardinality(Range(Rec(p).markers))
            /\ Len(Rec(p).markers) <= 2

\* C22 witness: the empty branches xu and hai share palace 6, which is the
\* horse palace too, and the center lodges there.
C22_Witness ==
    /\ Returned
    /\ chart.empty_death = <<"xu", "hai">>
    /\ chart.horse_star = "hai"
    /\ Rec(6).markers = <<"ma", "kong">>
    /\ Rec(6).star = "tianrui"
    /\ Rec(5).markers = <<"ma", "kong">>

\* The nine stems of the laying sequence.
NineStems == {"wu4", "ji", "geng", "xin", "ren", "gui", "ding", "bing", "yi"}

\* C25: the Earth Plate of the instance, for every Ju number and polarity, has
\* exactly the keys 1..9, each once, holds each of the nine stems wu4 ji geng
\* xin ren gui ding bing yi on exactly one palace and jia on none, and the
\* chart gives each palace the one stem the plate has for it.
C25_EarthPlateBijection ==
    Returned =>
        /\ Len(self.earth_plate) = 9
        /\ DictKeys(self.earth_plate) = 1..9
        /\ {DictGet(self.earth_plate, p, "") : p \in 1..9} = NineStems
        /\ \A st \in NineStems :
               Cardinality({p \in 1..9 : DictGet(self.earth_plate, p, "") = st}) = 1
        /\ \A p \in 1..9 :
               /\ DictGet(self.earth_plate, p, "") # "jia"
               /\ Rec(p).earth_stem = DictGet(self.earth_plate, p, "")

\* C25 witness: a Yang Dun plate of Ju 9, wrapping right after its first stem.
C25_Witness ==
    /\ Returned
    /\ self.yin_yang = "yang"
    /\ self.ju_num = 9
    /\ DictGet(self.earth_plate, 9, "") = "wu4"
    /\ DictGet(self.earth_plate, 1, "") = "ji"
    /\ DictGet(self.earth_plate, 8, "") = "yi"

LodgingCandidates ==
    {p \in NonCenterPalaces :
        CharIn(DictGet(self.earth_plate, 5, ""), DictGet(self.heaven_stem_plate, p, << >>))}

\* C27: in every returned chart the lodging search finds a palace, the only
\* candidate, which is the palace of tianrui; palace 5's star is tianrui, its
\* door and deity are not empty, and its heaven_stem has two characters, the
\* second its own earth stem.
C27_CenterLodgesWithTianRui ==
    Returned =>
        /\ LodgedPalace(self.earth_plate, self.heaven_stem_plate) # 0
        /\ LodgingCandidates = {LodgedPalace(self.earth_plate, self.heaven_stem_plate)}
        /\ LodgingCandidates = {PalaceOn(self.heaven_plate, "tianrui")}
        /\ Rec(5).star = "tianrui"
        /\ Rec(5).door # ""
        /\ Rec(5).deity # ""
        /\ Len(Rec(5).heaven_stem) = 2
        /\ Rec(5).heaven_stem[2] = Rec(5).earth_stem

\* C27 witness: tianrui is on palace 1, the first palace the search looks at.
C27_Witness ==
    /\ Returned
    /\ Rec(1).star = "tianrui"
    /\ Rec(5).star = "tianrui"
    /\ Rec(5).heaven_stem = <<Rec(2).earth_stem, Rec(5).earth_stem>>
    /\ Rec(5).deity = Rec(1).deity

\* C28: in every returned chart whose hour stem is jia every star and every
\* door is on its native palace, the commanding star and door are on lead_loc
\* (palace 2 when lead_loc is 5), and the heaven_stem of a non-center palace
\* is its own earth_stem, followed on palace 2 by palace 5's.
C28_LeadHourDoesNotRotate ==
    (Returned /\ At(chart.gan_zhi.hour, 0) = "jia") =>
        /\ \A p \in NonCenterPalaces :
               /\ Rec(p).star = NativeStar(p)
               /\ Rec(p).door = NativeDoor(p)
               /\ Rec(p).heaven_stem =
                      (IF p = 2 THEN <<Rec(2).earth_stem, Rec(5).earth_stem>>
                       ELSE <<Rec(p).earth_stem>>)
        /\ Rec(StandIn(self.locals.lead_loc)).star = CommandingStar
        /\ Rec(StandIn(self.locals.lead_loc)).door = chart.zhi_shi
        /\ self.locals.target_loc = self.locals.lead_loc
        /\ self.locals.dest_door_loc = self.locals.lead_loc

\* C28 witness: the hour jia-wu3 in Yin Dun with the lead stem xin on the
\* center palace.
C28_Witness ==
    /\ Returned
    /\ chart.gan_zhi.hour = <<"jia", "wu3">>
    /\ chart.yin_yang = "yin"
    /\ self.locals.lead_loc = 5
    /\ Rec(2).star = "tianrui"
    /\ Rec(2).door = "simen"

\* The place of a pillar in the sexagenary cycle, from 0.
CycleIndex(gz) == CHOOSE k \in 0..59 : Pillar(k) = gz

\* The Yuan index _calc_base_info computes for the k-th day of the cycle.
YuanIdxOfDay(k) ==
    calc_base_info(NewSelf, LunarOf(Pillar(k % 60), Pillar(0), "dongzhi")).yuan_idx

\* The place in the cycle of the instance's day, and of the first day of its
\* five-day block.
DayIndex == CycleIndex(At(self.gan_zhi, 2))
BlockStart == DayIndex - (DayIndex % 5)

\* C29: with the days of the cycle taken in order, the five-day block of the
\* instance's day starts at a jia or ji day, the Yuan of each of its five
\* days is the instance's Yuan, the Yuan of the next block (the first block
\* after the last) is the next one in the order Upper, Middle, Lower, Upper,
\* and the instance's Yuan is the Yuan of exactly 20 of the 60 days.
C29_YuanByFiveDayBlocks ==
    Based =>
        /\ At(Pillar(BlockStart), 0) \in {"jia", "ji"}
        /\ \A j \in 0..4 : YuanIdxOfDay(BlockStart + j) = self.yuan_idx
        /\ \A j \in 0..4 : YuanIdxOfDay(BlockStart + 5 + j) = (self.yuan_idx % 3) + 1
        /\ self.yuan = (CASE self.yuan_idx = 1 -> "shangyuan"
                          [] self.yuan_idx = 2 -> "zhongyuan"
                          [] self.yuan_idx = 3 -> "xiayuan"
                          [] OTHER -> "")
        /\ Cardinality({k \in 0..59 : YuanIdxOfDay(k) = self.yuan_idx}) = 20

\* C29 witness: gui-hai, the last day of the cycle, of the Lower Yuan; the
\* block after it starts the cycle again with jia-zi.
C29_Witness ==
    /\ Based
    /\ At(self.gan_zhi, 2) = <<"gui", "hai">>
    /\ DayIndex = 59
    /\ self.yuan_idx = 3
    /\ YuanIdxOfDay(60) = 1

\* C30: the de_palaces that calculate_box_energy and detect_diagonal_overflow
\* derive from empty_death of a generated chart are the non-center palaces of
\* the chart whose markers contain kong; get_palace_for_branch and
\* BRANCH_TO_PALACE give every one of the 12 branches the same palace, never
\* palace 5 and never none.
C30_EnergyAgreesOnEmptyDeath ==
    /\ pc = "energy" => response.chart.summary.de_palaces = PalacesMarked("kong")
    /\ pc = "overflow" => response.chart.de_palaces = PalacesMarked("kong")
    /\ pc \in {"energy", "overflow"} =>
           \A b \in Range(DI_ZHI) :
               /\ get_palace_for_branch(b) = DictGet(BRANCH_TO_PALACE, b, 0)
               /\ get_palace_for_branch(b) \in NonCenterPalaces

\* C30 witness: the empty branches shen and you, in two palaces; the energy
\* of palace 7 is lowered to 20.
C30_Witness ==
    /\ pc = "energy"
    /\ chart.empty_death = <<"shen", "you">>
    /\ response.chart.summary.de_palaces = {2, 7}
    /\ CharIn("kong", Rec(7).markers)
    /\ DictGet(response.chart.palaces, "7", [energy |-> 0]).energy = 20

\* A todos channel is being reduced.
Reducing == pc = "todos" /\ todos.agent # ""

\* The keys the channel holds a todo of, at an allowed status.
Listed(items) == {k \in TodoKeys : KeyStatus(items, k) >= 0}

\* One update leaves every todo it lists again at least where it was.
MergeKeepsHigher ==
    [][Reducing =>
         \A k \in Listed(todos.items) \cap Listed(todos'.items) :
             KeyStatus(todos'.items, k) >= KeyStatus(todos.items, k)]_vars

\* C23: across any sequence of updates reduced with merge_todos, the status of
\* the todo of a (content, owner) never moves backwards in
\* pending < in_progress < completed: the status the channel holds for a key
\* is never below a status the channel has held for that key.
C23_StatusNeverMovesBack ==
    Reducing =>
        \A k \in Listed(todos.items) : KeyStatus(todos.items, k) >= progress[k]

\* A request is in its loop, and a request has ended.
InLoop == pc = "model" /\ rotating.pc = "loop"
Ended == pc = "model" /\ rotating.pc \in {"returned", "raised"}

\* The request ended with the exception raised after the loop.
Exhausted == Ended /\ rotating.pc = "raised" /\ rotating.error = MaxRetryMessage(rotating.agent)

\* The request ended on a call that failed with a rate-limit or
\* leaked-response error, every call before it having failed so too.
EndedOnRotatingFailure ==
    /\ Ended
    /\ rotating.pc = "raised"
    /\ rotating.last \in {"rate_limit", "leaked", "ClientResponse"}

\* The calls of a request are bounded by twice the keys; while every call has
\* failed with a rate-limit or leaked-response error the key has advanced by
\* one a failure; with two keys or more such a run ends after exactly 2n calls
\* with the exception of the loop's end; with one key it ends on the first
\* call with that call's error and the key unchanged.
RotatingBounded ==
    pc = "model" =>
        /\ rotating.model_calls <= 2 * rotating.api_keys
        /\ rotating.current_key_index \in 0..(rotating.api_keys - 1)
        /\ InLoop =>
            /\ rotating.attempts = rotating.model_calls
            /\ rotating.current_key_index
                 = (rotating.first_key + rotating.model_calls) % rotating.api_keys
        /\ (EndedOnRotatingFailure /\ rotating.api_keys >= 2) =>
            /\ Exhausted
            /\ rotating.model_calls = 2 * rotating.api_keys
            /\ rotating.current_key_index = rotating.first_key
        /\ Exhausted => rotating.api_keys >= 2 /\ rotating.model_calls = 2 * rotating.api_keys
        /\ rotating.api_keys = 1 =>
            /\ rotating.model_calls <= 1
            /\ rotating.current_key_index = 0
            /\ EndedOnRotatingFailure =>
                /\ rotating.model_calls = 1
                /\ rotating.attempts = 0
                /\ rotating.error = CaughtError(rotating.agent, rotating.method, rotating.last)

====
